---------------------------- MODULE Spec2Model ----------------------------
(***************************************************************************)
(* Real-time transcription sessions of the STT comparison application.     *)
(*                                                                         *)
(* One service instance is modelled at a time; svc says which of the three *)
(* service implementations of the repository it is:                        *)
(*   "verbum"    VerbumService, OPUS/MediaRecorder variant                 *)
(*               (src/src/services/verbumService.ts)                       *)
(*   "verbumPcm" VerbumService, PCM/audio-cursor variant                   *)
(*               (src/src/app/layout.tsx, lines 184-751)                   *)
(*   "deepgram"  DeepgramService (src/unnamed/part_002, lines 571-984)     *)
(* together with the easy-peasy store slices of both backends.             *)
(*                                                                         *)
(* Units: wall-clock times and latencies are milliseconds; the audio       *)
(* cursor and the transcript offsets/durations are kept in milliseconds    *)
(* too (the code keeps them in seconds and multiplies by 1000), so the     *)
(* arithmetic is exact integer arithmetic.  Confidences are hundredths     *)
(* (0.95 is 95) and the accuracy metric is tenths of a percent (95.0 is    *)
(* 950).  Texts are sequences of one-character strings.  An optional       *)
(* value is <<>> when undefined and <<v>> when present.                    *)
(***************************************************************************)
EXTENDS Integers, Sequences, FiniteSets, TLC

VARIABLES
    svc,                    \* which service implementation is under study
    webSpeech,              \* window.SpeechRecognition is available
    customSink,             \* startTranscription is given the caller's own
                            \* onTranscription callback, which keeps the results
                            \* outside the store
    now,                    \* Date.now()
    lastOp,                 \* the call or callback that ran last
    handled,                \* what the last step handled: the event a result was
                            \* emitted for, the payload of addResult, the slice
                            \* reset() was applied to, the listener that ran
    isActive,               \* this.isActive
    isConnecting,           \* this.isConnecting (Verbum only)
    socket,                 \* this.socket / this.connection: 0 is null
    conn,                   \* every transport connection created so far
    promise,                \* connectToVerbum's promise, per connection
    timers,                 \* pending connect-timeout timers
    results,                \* this.results (Verbum only)
    capture,                \* live capture pipelines (recorder/interval/processor)
    captureRef,             \* the pipeline the service still references, 0 is none
    cleanups,               \* live cleanupInterval timers (OPUS Verbum)
    recog,                  \* running Web Speech recognizers (fallback)
    streamRef,              \* this.stream is set
    tracksLive,             \* the shared MediaStream's tracks are live
    chunkCounter,           \* this.chunkCounter
    audioChunkTimestamps,   \* values of this.audioChunkTimestamps
    currentUtteranceStart,  \* this.currentUtteranceStart
    audioActivityDetected,  \* this.audioActivityDetected
    audioCursor,            \* this.audioCursor, in ms
    audioSamples,           \* this.audioSamples.length (PCM Verbum)
    pendingConv,            \* event.data.arrayBuffer() conversions in flight
    sentSinceReset,         \* chunks handed to the transport since the cursor reset
    startPromise,           \* the promise of the latest startTranscription call
                            \* that passed the guard
    fallbacks,              \* calls of fallbackToWebSpeech, per connection
    serviceRef,             \* the page's service ref holds a service
    store                   \* the easy-peasy store: one slice per backend

vars == << svc, webSpeech, customSink, now, lastOp, handled, isActive, isConnecting,
           socket, conn, promise, timers, results, capture, captureRef, cleanups, recog,
           streamRef, tracksLive, chunkCounter, audioChunkTimestamps,
           currentUtteranceStart, audioActivityDetected, audioCursor,
           audioSamples, pendingConv, sentSinceReset, startPromise, fallbacks,
           serviceRef, store >>

-----------------------------------------------------------------------------
(* Bounds of the model *)

MaxConns == 2
MaxResults == 1
MaxChunks == 2
MaxPending == 1
MaxSamples == 16384
MaxElapsed == 3000
TickMs == 1500
Epoch == 1000

(* Program constants *)

RecentWindowMs == 3000
CleanupCutoffMs == 10000
VerbumCleanupEvery == 20
CursorCleanupEvery == 50
PcmChunkMs == 20
PcmSampleRate == 8000
PcmBitsPerSample == 16
PcmChannelCount == 1
PcmBufferSize == 4096
DeepgramBufferSize == 1024
DeepgramSampleRate == 16000
DeepgramDefaultConfidence == 95
VerbumDefaultConfidence == 80
VerbumHighConfidence == 90
VerbumMediumConfidence == 70
VerbumLowConfidence == 50
FallbackDefaultConfidence == 85
DefaultAccuracy == 950

Services == {"verbum", "verbumPcm", "deepgram"}
Backends == {"deepgram", "verbum"}
Statuses == {"disconnected", "connecting", "connected", "error"}

None == << >>
Some(v) == << v >>
Field(rec, f) == IF f \in DOMAIN rec THEN Some(rec[f]) ELSE None

-----------------------------------------------------------------------------
(* Text helpers: String.prototype.trim, Array.prototype.join(' '),         *)
(* split(/\s+/).filter(word => word.length > 0).length                     *)

IsSpace(c) == c = " "

RECURSIVE TrimStart(_)
TrimStart(s) ==
    IF s # << >> /\ IsSpace(Head(s)) THEN TrimStart(Tail(s)) ELSE s

RECURSIVE TrimEnd(_)
TrimEnd(s) ==
    IF s # << >> /\ IsSpace(s[Len(s)]) THEN TrimEnd(SubSeq(s, 1, Len(s) - 1)) ELSE s

Trim(s) == TrimEnd(TrimStart(s))

RECURSIVE JoinSpace(_)
JoinSpace(ts) ==
    IF ts = << >> THEN << >>
    ELSE IF Len(ts) = 1 THEN ts[1]
    ELSE ts[1] \o << " " >> \o JoinSpace(Tail(ts))

WordCount(s) ==
    Cardinality({i \in 1..Len(s) :
        /\ ~IsSpace(s[i])
        /\ (i = 1 \/ IsSpace(s[i - 1]))})

RECURSIVE SumSeq(_)
SumSeq(s) == IF s = << >> THEN 0 ELSE Head(s) + SumSeq(Tail(s))

(* Math.round of a / b for a >= 0, b > 0 *)
RoundDiv(a, b) == (2 * a + b) \div (2 * b)

Max(a, b) == IF a >= b THEN a ELSE b

SetMax(S) == CHOOSE x \in S : \A y \in S : y <= x

-----------------------------------------------------------------------------
(* The store slices (verbumModel.ts, deepgramModel.ts) *)

ZeroMetrics == [latency |-> 0, accuracy |-> 0, wordCount |-> 0]

InitialSlice ==
    [text |-> << >>, results |-> << >>, metrics |-> ZeroMetrics,
     isActive |-> FALSE, connectionStatus |-> "disconnected"]

FinalTexts(rs) ==
    LET finals == SelectSeq(rs, LAMBDA r : r.isFinal)
    IN  [i \in 1..Len(finals) |-> finals[i].text]

finalText(s) == Trim(JoinSpace(FinalTexts(s.results)))

(* an addResult whose final branch joins the text of every result *)
addResultAllTexts(s, payload) ==
    LET rs == Append(s.results, payload)
        finalWords == JoinSpace(FinalTexts(rs))
    IN  [s EXCEPT !.results = rs,
                  !.text = IF payload.isFinal
                           THEN Trim(JoinSpace([i \in 1..Len(rs) |-> rs[i].text]))
                           ELSE IF finalWords # << >>
                                THEN finalWords \o << " " >> \o payload.text
                                ELSE payload.text]

(* an addResult that puts the payload in front of the stored results *)
addResultInFront(s, payload) ==
    LET rs == << payload >> \o s.results
        finalWords == JoinSpace(FinalTexts(rs))
    IN  [s EXCEPT !.results = rs,
                  !.text = IF payload.isFinal THEN Trim(finalWords)
                           ELSE IF finalWords # << >>
                                THEN finalWords \o << " " >> \o payload.text
                                ELSE payload.text]

(* actions.addResult *)
addResult(s, payload) ==
    LET rs == Append(s.results, payload)
        finalWords == JoinSpace(FinalTexts(rs))
    IN  [s EXCEPT !.results = rs,
                  !.text = IF payload.isFinal THEN Trim(finalWords)
                           ELSE IF finalWords # << >>
                                THEN finalWords \o << " " >> \o payload.text
                                ELSE payload.text]

updateMetrics(s, m) ==
    [s EXCEPT !.metrics = [k \in DOMAIN s.metrics \cup DOMAIN m |->
                              IF k \in DOMAIN m THEN m[k] ELSE s.metrics[k]]]

setActive(s, b) == [s EXCEPT !.isActive = b]

setConnectionStatus(s, st) == [s EXCEPT !.connectionStatus = st]

clearResults(s) == [s EXCEPT !.results = << >>, !.text = << >>]

(* a reset that leaves the metrics as they are *)
resetKeepsMetrics(s) ==
    [s EXCEPT !.text = << >>,
              !.results = << >>,
              !.isActive = FALSE,
              !.connectionStatus = "disconnected"]

(* actions.reset *)
reset(s) ==
    [s EXCEPT !.text = << >>,
              !.results = << >>,
              !.metrics = [latency |-> 0, accuracy |-> 0, wordCount |-> 0],
              !.isActive = FALSE,
              !.connectionStatus = "disconnected"]

-----------------------------------------------------------------------------
(* calculateMetrics (identical in the three services) *)

(* calculateMetrics without the early return for no final result *)
calculateMetricsNoEmptyCase(rs) ==
    LET finalResults == SelectSeq(rs, LAMBDA r : r.isFinal)
        withLat == SelectSeq(finalResults,
                             LAMBDA r : r.latency # None /\ r.latency[1] > 0)
        latencies == [i \in 1..Len(withLat) |-> withLat[i].latency[1]]
        withConf == SelectSeq(finalResults, LAMBDA r : r.confidence # None)
        confidences == [i \in 1..Len(withConf) |-> withConf[i].confidence[1]]
        words == [i \in 1..Len(finalResults) |-> WordCount(finalResults[i].text)]
    IN  IF FALSE THEN ZeroMetrics
        ELSE [latency |-> IF latencies # << >>
                          THEN RoundDiv(SumSeq(latencies), Len(latencies))
                          ELSE 0,
              accuracy |-> IF confidences # << >>
                           THEN RoundDiv(10 * SumSeq(confidences), Len(confidences))
                           ELSE DefaultAccuracy,
              wordCount |-> SumSeq(words)]

(* calculateMetrics counting the words of interim results too *)
calculateMetricsCountsInterim(rs) ==
    LET finalResults == SelectSeq(rs, LAMBDA r : r.isFinal)
        withLat == SelectSeq(finalResults,
                             LAMBDA r : r.latency # None /\ r.latency[1] > 0)
        latencies == [i \in 1..Len(withLat) |-> withLat[i].latency[1]]
        withConf == SelectSeq(finalResults, LAMBDA r : r.confidence # None)
        confidences == [i \in 1..Len(withConf) |-> withConf[i].confidence[1]]
        words == [i \in 1..Len(rs) |-> WordCount(rs[i].text)]
    IN  IF finalResults = << >> THEN ZeroMetrics
        ELSE [latency |-> IF latencies # << >>
                          THEN RoundDiv(SumSeq(latencies), Len(latencies))
                          ELSE 0,
              accuracy |-> IF confidences # << >>
                           THEN RoundDiv(10 * SumSeq(confidences), Len(confidences))
                           ELSE DefaultAccuracy,
              wordCount |-> SumSeq(words)]

(* calculateMetrics truncating the mean latency *)
calculateMetricsFloorsLatency(rs) ==
    LET finalResults == SelectSeq(rs, LAMBDA r : r.isFinal)
        withLat == SelectSeq(finalResults,
                             LAMBDA r : r.latency # None /\ r.latency[1] > 0)
        latencies == [i \in 1..Len(withLat) |-> withLat[i].latency[1]]
        withConf == SelectSeq(finalResults, LAMBDA r : r.confidence # None)
        confidences == [i \in 1..Len(withConf) |-> withConf[i].confidence[1]]
        words == [i \in 1..Len(finalResults) |-> WordCount(finalResults[i].text)]
    IN  IF finalResults = << >> THEN ZeroMetrics
        ELSE [latency |-> IF latencies # << >>
                          THEN SumSeq(latencies) \div Len(latencies)
                          ELSE 0,
              accuracy |-> IF confidences # << >>
                           THEN RoundDiv(10 * SumSeq(confidences), Len(confidences))
                           ELSE DefaultAccuracy,
              wordCount |-> SumSeq(words)]

(* calculateMetrics *)
calculateMetrics(rs) ==
    LET finalResults == SelectSeq(rs, LAMBDA r : r.isFinal)
        withLat == SelectSeq(finalResults,
                             LAMBDA r : r.latency # None /\ r.latency[1] > 0)
        latencies == [i \in 1..Len(withLat) |-> withLat[i].latency[1]]
        withConf == SelectSeq(finalResults, LAMBDA r : r.confidence # None)
        confidences == [i \in 1..Len(withConf) |-> withConf[i].confidence[1]]
        words == [i \in 1..Len(finalResults) |-> WordCount(finalResults[i].text)]
    IN  IF finalResults = << >> THEN ZeroMetrics
        ELSE [latency |-> IF latencies # << >>
                          THEN RoundDiv(SumSeq(latencies), Len(latencies))
                          ELSE 0,
              accuracy |-> IF confidences # << >>
                           THEN RoundDiv(10 * SumSeq(confidences), Len(confidences))
                           ELSE DefaultAccuracy,
              wordCount |-> SumSeq(words)]

-----------------------------------------------------------------------------
(* Recognition events and the latency computation *)

Verbums == {"verbum", "verbumPcm"}

B == IF svc = "deepgram" THEN "deepgram" ELSE "verbum"

(* a clamp that lets negative values through *)
ClampNone(x) == x

(* Math.max(0, calculatedLatency) *)
Clamp(x) == Max(0, x)

(* the chunk-timestamp fallback: most recent timestamp of the last 3000 ms *)
ChunkBasedLatency(ts, stamps) ==
    LET recent == {t \in stamps : t > ts - RecentWindowMs}
    IN  IF stamps # {} /\ recent # {} THEN ts - SetMax(recent) ELSE 0

(* a latency computation that ignores the utterance start of a final event *)
DeepgramLatencyNoUtterance(data, cursor, utterStart, ts) ==
    LET transcript == data.alt
    IN  IF ~data.is_final /\ Field(transcript, "start") # None
                          /\ Field(transcript, "duration") # None
        THEN Clamp(cursor - (transcript.start + transcript.duration))
        ELSE 0

(* DeepgramService.handleTranscriptResult: calculatedLatency.  transcript is
   data.channel.alternatives[0]; start and duration are read from it. *)
DeepgramLatency(data, cursor, utterStart, ts) ==
    LET transcript == data.alt
    IN  IF ~data.is_final /\ Field(transcript, "start") # None
                          /\ Field(transcript, "duration") # None
        THEN Clamp(cursor - (transcript.start + transcript.duration))
        ELSE IF data.is_final
             THEN IF utterStart > 0 THEN ts - utterStart ELSE 0
             ELSE 0

(* VerbumService (PCM).handleSpeechResult: calculatedLatency *)
VerbumPcmLatency(data, cursor, utterStart, ts, stamps) ==
    IF data.status # "recognized" /\ data.offset # None /\ data.duration # None
    THEN Clamp(cursor - (data.offset[1] + data.duration[1]))
    ELSE IF data.status = "recognized"
         THEN IF utterStart > 0 THEN ts - utterStart ELSE 0
         ELSE ChunkBasedLatency(ts, stamps)

(* VerbumService (OPUS).handleSpeechResult: calculatedLatency *)
VerbumLatency(data, utterStart, ts, stamps) ==
    IF utterStart > 0 THEN ts - utterStart
    ELSE ChunkBasedLatency(ts, stamps)

(* a result that leaves the latency out when nothing was computed *)
ResultLatencyAbsent(calculatedLatency) ==
    IF calculatedLatency = 0 THEN None ELSE Some(Clamp(calculatedLatency))

(* latency: Math.max(0, calculatedLatency) of the emitted result *)
ResultLatency(calculatedLatency) == Some(Clamp(calculatedLatency))

(* an utterance timer that a final result leaves armed *)
UtteranceKept(isFinal, utterStart, activity) == << utterStart, activity >>

(* the utterance timer after a result was handled *)
UtteranceAfterResult(isFinal, utterStart, activity) ==
    IF isFinal THEN << 0, FALSE >> ELSE << utterStart, activity >>

VerbumConfidence(c) ==
    IF c # None /\ c[1] = "num" THEN c[2]
    ELSE IF c = << "str", "high" >> THEN VerbumHighConfidence
    ELSE IF c = << "str", "medium" >> THEN VerbumMediumConfidence
    ELSE IF c = << "str", "low" >> THEN VerbumLowConfidence
    ELSE VerbumDefaultConfidence

(* transcript.confidence || 0.95 *)
DeepgramConfidence(c) ==
    IF c = None \/ c[1] = 0 THEN DeepgramDefaultConfidence ELSE c[1]

(* !text || !text.trim() *)
IsBlank(text) == Trim(text) = << >>

-----------------------------------------------------------------------------
(* Inputs *)

Texts == { << " " >>, << "a" >> }
TimingPairs == { << 5, 10 >> }
TickSteps == { TickMs }

VerbumEvents ==
    [text : Texts, confidence : {None, << "num", 50 >>},
     status : {"recognizing", "recognized"},
     offset : {None}, duration : {None}]
    \cup
    { [text |-> t, confidence |-> None, status |-> st,
       offset |-> Some(p[1]), duration |-> Some(p[2])] :
         t \in Texts, st \in {"recognizing", "recognized"}, p \in TimingPairs }

(* DeepgramResponse: start and duration are top-level fields of the message;
   the handler takes data: any, so an alternative carrying its own start and
   duration is an input too. *)
DeepgramEvents ==
    { [is_final |-> f, start |-> None, duration |-> None,
       alt |-> [transcript |-> t, confidence |-> c]] :
         f \in BOOLEAN, t \in Texts, c \in {None, Some(50)} }
    \cup
    { [is_final |-> f, start |-> Some(p[1]), duration |-> Some(p[2]),
       alt |-> [transcript |-> t, confidence |-> None]] :
         f \in BOOLEAN, t \in Texts, p \in TimingPairs }
    \cup
    { [is_final |-> f, start |-> Some(p[1]), duration |-> Some(p[2]),
       alt |-> [transcript |-> t, confidence |-> None,
                start |-> p[1], duration |-> p[2]]] :
         f \in BOOLEAN, t \in Texts, p \in TimingPairs }

-----------------------------------------------------------------------------
(* State *)

connVars == << isActive, isConnecting, socket, conn, promise, timers >>
pipeVars == << capture, captureRef, cleanups, recog, streamRef, tracksLive >>
uttVars == << chunkCounter, audioChunkTimestamps, currentUtteranceStart,
              audioActivityDetected >>
curVars == << audioCursor, audioSamples, sentSinceReset >>
envVars == << svc, webSpeech, customSink >>
callVars == << startPromise, fallbacks, serviceRef >>

Connected(i) == i # 0 /\ conn[i] = "open"

(* a constructed service and the initial store *)
Constructed ==
    /\ svc \in Services
    /\ webSpeech \in BOOLEAN
    /\ now = Epoch
    /\ lastOp = "init"
    /\ handled = None
    /\ isActive = FALSE
    /\ isConnecting = FALSE
    /\ socket = 0
    /\ conn = << >>
    /\ promise = << >>
    /\ timers = {}
    /\ results = << >>
    /\ capture = {}
    /\ captureRef = 0
    /\ cleanups = {}
    /\ recog = {}
    /\ streamRef = FALSE
    /\ tracksLive = FALSE
    /\ chunkCounter = 0
    /\ audioChunkTimestamps = {}
    /\ currentUtteranceStart = 0
    /\ audioActivityDetected = FALSE
    /\ audioCursor = 0
    /\ audioSamples = 0
    /\ pendingConv = {}
    /\ sentSinceReset = 0
    /\ startPromise = "none"
    /\ fallbacks = << >>
    /\ serviceRef = FALSE
    /\ store = [b \in Backends |-> InitialSlice]

(* the page Home passes no callback: results go to the store *)
Init == Constructed /\ customSink = FALSE

(* the wall clock advances *)
Tick(d) ==
    /\ now' = now + d
    /\ lastOp' = "other" /\ handled' = None
    /\ UNCHANGED << envVars, callVars, connVars, pipeVars, uttVars, curVars, results,
                    pendingConv, store >>

-----------------------------------------------------------------------------
(* VerbumService: startTranscription, connectToVerbum and its listeners *)

(* cleanupOldTimestamps *)
cleanupOldTimestamps(stamps, t) == {x \in stamps : ~(x < t - CleanupCutoffMs)}

(* startTranscription's guard: if (this.isActive || this.isConnecting) return *)
VerbumStartGuard == isActive \/ isConnecting

VerbumStartTranscription ==
    /\ svc \in Verbums
    /\ lastOp' = "start" /\ handled' = None
    /\ IF VerbumStartGuard
       THEN UNCHANGED << envVars, callVars, now, connVars, pipeVars, uttVars, curVars,
                         results, pendingConv, store >>
       ELSE /\ isActive' = TRUE
            /\ isConnecting' = TRUE
            /\ results' = << >>
            /\ store' = [store EXCEPT ![B] =
                           setConnectionStatus(setActive(@, TRUE), "connecting")]
            /\ conn' = Append(conn, "connecting")
            /\ promise' = Append(promise, "pending")
            /\ socket' = Len(conn) + 1
            /\ timers' = timers \cup {Len(conn) + 1}
            /\ tracksLive' = TRUE
            /\ startPromise' = "pending"
            /\ fallbacks' = Append(fallbacks, 0)
            /\ UNCHANGED << envVars, serviceRef, now, capture, captureRef,
                            cleanups, recog, streamRef, uttVars, curVars,
                            pendingConv >>

(* startAudioStreaming, run when connectToVerbum's promise resolves *)
VerbumStartAudioStreaming(i) ==
    /\ streamRef' = TRUE
    /\ chunkCounter' = 0
    /\ audioChunkTimestamps' = {}
    /\ currentUtteranceStart' = 0
    /\ audioActivityDetected' = FALSE
    /\ capture' = capture \cup {i}
    /\ captureRef' = i
    /\ IF svc = "verbumPcm"
       THEN /\ audioCursor' = 0
            /\ audioSamples' = 0
            /\ sentSinceReset' = 0
            /\ UNCHANGED cleanups
       ELSE /\ cleanups' = cleanups \cup {i}
            /\ UNCHANGED curVars

(* the promise of the latest start call settles when that call's
   connection settles; an earlier call's promise is not tracked *)
StartSettles(i, outcome) == IF i = Len(conn) THEN outcome ELSE startPromise

(* socket.on('connect') *)
VerbumOnConnect(i) ==
    /\ svc \in Verbums
    /\ i \in DOMAIN conn
    /\ conn[i] = "connecting"
    /\ conn' = [conn EXCEPT ![i] = "open"]
    /\ isActive' = TRUE
    /\ isConnecting' = FALSE
    /\ store' = [store EXCEPT ![B] =
                    setActive(setConnectionStatus(@, "connected"), TRUE)]
    /\ lastOp' = "other" /\ handled' = None
    /\ IF promise[i] = "pending"
       THEN /\ promise' = [promise EXCEPT ![i] = "resolved"]
            /\ VerbumStartAudioStreaming(i)
            /\ startPromise' = StartSettles(i, "resolved")
       ELSE UNCHANGED << promise, capture, captureRef, cleanups, streamRef,
                         uttVars, curVars, startPromise >>
    /\ UNCHANGED << envVars, fallbacks, serviceRef, now, socket, timers, results, recog, tracksLive,
                    pendingConv >>

(* the catch block of startTranscription: fallbackToWebSpeech starts a
   recognizer when the Web Speech API exists and throws otherwise *)
FallbackRecognizers(i) == IF webSpeech THEN recog \cup {i} ELSE recog

(* what startTranscription's promise becomes when its catch block has run *)
FallbackOutcome == IF webSpeech THEN "resolved" ELSE "rejected"

(* the catch block of startTranscription for connection i *)
VerbumStartCatch(i) ==
    /\ recog' = FallbackRecognizers(i)
    /\ fallbacks' = [fallbacks EXCEPT ![i] = @ + 1]
    /\ startPromise' = StartSettles(i, FallbackOutcome)

(* socket.on('connect_error'); socket.io keeps trying to connect *)
VerbumOnConnectError(i) ==
    /\ svc \in Verbums
    /\ i \in DOMAIN conn
    /\ conn[i] = "connecting"
    /\ isConnecting' = FALSE
    /\ store' = [store EXCEPT ![B] = setConnectionStatus(@, "error")]
    /\ lastOp' = "other" /\ handled' = None
    /\ IF promise[i] = "pending"
       THEN /\ promise' = [promise EXCEPT ![i] = "rejected"]
            /\ VerbumStartCatch(i)
       ELSE UNCHANGED << promise, recog, fallbacks, startPromise >>
    /\ UNCHANGED << envVars, serviceRef, now, isActive, socket, conn, timers, results,
                    capture, captureRef, cleanups, streamRef, tracksLive,
                    uttVars, curVars, pendingConv >>

(* socket.on('disconnect'): the server or the network dropped the socket;
   socket.io reconnects by itself unless the server closed the socket *)
VerbumOnDisconnect(i, reconnects) ==
    /\ svc \in Verbums
    /\ i \in DOMAIN conn
    /\ conn[i] = "open"
    /\ conn' = [conn EXCEPT ![i] = IF reconnects THEN "connecting" ELSE "closed"]
    /\ isActive' = FALSE
    /\ isConnecting' = FALSE
    /\ store' = [store EXCEPT ![B] =
                    setActive(setConnectionStatus(@, "disconnected"), FALSE)]
    /\ lastOp' = "other" /\ handled' = None
    /\ UNCHANGED << envVars, callVars, now, socket, promise, timers, results, pipeVars,
                    uttVars, curVars, pendingConv >>

(* a connection timeout that only expires *)
VerbumOnTimeoutExpiresOnly(i) ==
    /\ svc \in Verbums
    /\ i \in timers
    /\ timers' = timers \ {i}
    /\ lastOp' = "other" /\ handled' = None
    /\ UNCHANGED << envVars, callVars, now, isActive, isConnecting, socket,
                    conn, promise, results, pipeVars, uttVars, curVars,
                    pendingConv, store >>

(* the connection timeout: setTimeout(..., 10000), never cleared *)
VerbumOnTimeout(i) ==
    /\ svc \in Verbums
    /\ i \in timers
    /\ timers' = timers \ {i}
    /\ lastOp' = "other" /\ handled' = None
    /\ IF ~Connected(socket)
       THEN /\ isConnecting' = FALSE
            /\ IF promise[i] = "pending"
               THEN /\ promise' = [promise EXCEPT ![i] = "rejected"]
                    /\ store' = [store EXCEPT ![B] =
                                    setConnectionStatus(@, "error")]
                    /\ VerbumStartCatch(i)
               ELSE UNCHANGED << promise, store, recog, fallbacks,
                                 startPromise >>
       ELSE UNCHANGED << isConnecting, promise, store, recog, fallbacks,
                         startPromise >>
    /\ UNCHANGED << envVars, serviceRef, now, isActive, socket, conn, results, capture,
                    captureRef, cleanups, streamRef, tracksLive, uttVars,
                    curVars, pendingConv >>

-----------------------------------------------------------------------------
(* VerbumService: recognition results *)

(* handleSpeechResult: calculatedLatency of the variant *)
VerbumCalculatedLatency(data, ts) ==
    IF svc = "verbumPcm"
    THEN VerbumPcmLatency(data, audioCursor, currentUtteranceStart, ts,
                          audioChunkTimestamps)
    ELSE VerbumLatency(data, currentUtteranceStart, ts, audioChunkTimestamps)

VerbumResult(data, ts) ==
    [text |-> Trim(data.text),
     timestamp |-> ts,
     confidence |-> Some(VerbumConfidence(data.confidence)),
     isFinal |-> (data.status = "recognized"),
     latency |-> ResultLatency(VerbumCalculatedLatency(data, ts))]

(* the store after addResult(result) and, for a final result, the metrics
   update computed from the store's results *)
StoreAfterResult(slice, result) ==
    LET added == addResult(slice, result)
    IN  IF result.isFinal
        THEN updateMetrics(added, calculateMetrics(added.results))
        ELSE added

(* this.onTranscription(result): the default callback adds the result to
   the store, the caller's own callback does not *)
OnTranscription(slice, result) ==
    IF customSink THEN slice ELSE addResult(slice, result)

(* the store after handleSpeechResult called this.onTranscription and, for
   a final result, published calculateMetrics of the store's results *)
VerbumStoreAfterResult(slice, result) ==
    LET delivered == OnTranscription(slice, result)
    IN  IF result.isFinal
        THEN updateMetrics(delivered, calculateMetrics(delivered.results))
        ELSE delivered

(* socket.on('speechRecognized') -> handleSpeechResult *)
VerbumOnSpeechRecognized(i, data) ==
    /\ svc \in Verbums
    /\ i \in DOMAIN conn
    /\ conn[i] = "open"
    /\ IF IsBlank(data.text)
       THEN /\ lastOp' = "other" /\ handled' = None
            /\ UNCHANGED << results, store, currentUtteranceStart,
                            audioActivityDetected >>
       ELSE LET result == VerbumResult(data, now)
                after == UtteranceAfterResult(result.isFinal,
                                              currentUtteranceStart,
                                              audioActivityDetected)
            IN  /\ lastOp' = "result" /\ handled' = Some(data)
                /\ results' = Append(results, result)
                /\ store' = [store EXCEPT ![B] =
                                VerbumStoreAfterResult(@, result)]
                /\ currentUtteranceStart' = after[1]
                /\ audioActivityDetected' = after[2]
    /\ UNCHANGED << envVars, callVars, now, connVars, pipeVars, chunkCounter,
                    audioChunkTimestamps, curVars, pendingConv >>

(* event.results[i][0].confidence || 0.85 *)
FallbackConfidence(c) ==
    IF c = None \/ c[1] = 0 THEN FallbackDefaultConfidence ELSE c[1]

FallbackResult(transcript, isFinal, c, ts) ==
    [text |-> transcript,
     timestamp |-> ts,
     confidence |-> Some(FallbackConfidence(c)),
     isFinal |-> isFinal,
     latency |-> None]

(* recognition.onresult of the Web Speech fallback *)
FallbackOnResult(i, transcript, isFinal) ==
    /\ svc \in Verbums
    /\ i \in recog
    /\ LET result == FallbackResult(transcript, isFinal, None, now)
       IN  /\ results' = Append(results, result)
           /\ store' = IF ~IsBlank(transcript)
                       THEN [store EXCEPT ![B] = OnTranscription(@, result)]
                       ELSE store
    /\ lastOp' = "fallback" /\ handled' = None
    /\ UNCHANGED << envVars, callVars, now, connVars, pipeVars, uttVars, curVars,
                    pendingConv >>

(* recognition.onend: restarted while the service is active *)
FallbackOnEnd(i) ==
    /\ svc \in Verbums
    /\ i \in recog
    /\ recog' = IF isActive THEN recog ELSE recog \ {i}
    /\ lastOp' = "other" /\ handled' = None
    /\ UNCHANGED << envVars, callVars, now, connVars, capture, captureRef, cleanups,
                    streamRef, tracksLive, uttVars, curVars, results,
                    pendingConv, store >>

-----------------------------------------------------------------------------
(* VerbumService: stopTranscription *)

(* this.results.length > 0: final metrics from the service's own results *)
VerbumFinalMetrics(slice, rs) ==
    IF rs # << >> THEN updateMetrics(slice, calculateMetrics(rs)) ELSE slice

VerbumStopTranscription ==
    /\ svc \in Verbums
    /\ lastOp' = "stop" /\ handled' = None
    /\ isActive' = FALSE
    /\ isConnecting' = FALSE
    /\ IF svc = "verbumPcm"
       THEN /\ capture' = capture \ {captureRef}
            /\ captureRef' = 0
            /\ audioSamples' = 0
       ELSE /\ capture' = capture \ {captureRef}
            /\ captureRef' = IF captureRef \in capture THEN 0 ELSE captureRef
            /\ UNCHANGED audioSamples
    /\ tracksLive' = IF streamRef THEN FALSE ELSE tracksLive
    /\ streamRef' = FALSE
    /\ conn' = IF socket # 0 THEN [conn EXCEPT ![socket] = "closed"] ELSE conn
    /\ socket' = 0
    /\ store' = [store EXCEPT ![B] =
                    setActive(setConnectionStatus(
                        VerbumFinalMetrics(@, results), "disconnected"), FALSE)]
    /\ UNCHANGED << envVars, callVars, now, promise, timers, results, cleanups, recog,
                    uttVars, audioCursor, sentSinceReset, pendingConv >>

-----------------------------------------------------------------------------
(* VerbumService (OPUS): MediaRecorder chunks *)

(* an utterance timer that every chunk with activity stamps again *)
UtteranceOnChunkRestamps(hasActivity, stamp, utterStart, activity) ==
    IF hasActivity THEN << stamp, TRUE >> ELSE << utterStart, activity >>

(* the utterance timer on a chunk with the given activity *)
UtteranceOnChunk(hasActivity, stamp, utterStart, activity) ==
    IF ~activity /\ hasActivity THEN << stamp, TRUE >> ELSE << utterStart, activity >>

(* mediaRecorder.ondataavailable *)
VerbumOnDataAvailable(i, hasActivity) ==
    /\ svc = "verbum"
    /\ i \in capture
    /\ tracksLive
    /\ chunkCounter' = chunkCounter + 1
    /\ audioChunkTimestamps' =
          IF chunkCounter % VerbumCleanupEvery = 0
          THEN cleanupOldTimestamps(audioChunkTimestamps \cup {now}, now)
          ELSE audioChunkTimestamps \cup {now}
    /\ pendingConv' = pendingConv \cup {[stamp |-> now, act |-> hasActivity]}
    /\ lastOp' = "other" /\ handled' = None
    /\ UNCHANGED << envVars, callVars, now, connVars, pipeVars, currentUtteranceStart,
                    audioActivityDetected, curVars, results, store >>

(* event.data.arrayBuffer().then(...) *)
VerbumOnBuffer(c) ==
    /\ svc = "verbum"
    /\ c \in pendingConv
    /\ pendingConv' = pendingConv \ {c}
    /\ LET after == UtteranceOnChunk(c.act, c.stamp, currentUtteranceStart,
                                     audioActivityDetected)
       IN  /\ currentUtteranceStart' = after[1]
           /\ audioActivityDetected' = after[2]
    /\ lastOp' = "other" /\ handled' = None
    /\ UNCHANGED << envVars, callVars, now, connVars, pipeVars, chunkCounter,
                    audioChunkTimestamps, curVars, results, store >>

(* event.data.arrayBuffer() rejected: .catch logs and drops the chunk *)
VerbumOnBufferError(c) ==
    /\ svc = "verbum"
    /\ c \in pendingConv
    /\ pendingConv' = pendingConv \ {c}
    /\ lastOp' = "other" /\ handled' = None
    /\ UNCHANGED << envVars, callVars, now, connVars, pipeVars, uttVars, curVars,
                    results, store >>

(* the MediaRecorder goes inactive when the stream's tracks have ended *)
VerbumRecorderEnds(i) ==
    /\ svc = "verbum"
    /\ i \in capture
    /\ ~tracksLive
    /\ capture' = capture \ {i}
    /\ lastOp' = "other" /\ handled' = None
    /\ UNCHANGED << envVars, callVars, now, connVars, captureRef, cleanups, recog,
                    streamRef, tracksLive, uttVars, curVars, results,
                    pendingConv, store >>

(* cleanupInterval: setInterval(..., 1000), cleared by itself when inactive *)
VerbumCleanupInterval(i) ==
    /\ svc = "verbum"
    /\ i \in cleanups
    /\ cleanups' = IF ~isActive THEN cleanups \ {i} ELSE cleanups
    /\ lastOp' = "other" /\ handled' = None
    /\ UNCHANGED << envVars, callVars, now, connVars, capture, captureRef, recog,
                    streamRef, tracksLive, uttVars, curVars, results,
                    pendingConv, store >>

-----------------------------------------------------------------------------
(* VerbumService (PCM): script processor and send interval *)

PcmChunkSize == (PcmSampleRate * PcmChannelCount * PcmBitsPerSample) \div 8

(* a cursor that loses the submitted chunk *)
AdvanceCursorStalled(cursor, durationMs) == cursor

(* this.audioCursor += chunkDurationSeconds *)
AdvanceCursor(cursor, durationMs) == cursor + durationMs

(* scriptProcessor.onaudioprocess *)
PcmOnAudioProcess(i) ==
    /\ svc = "verbumPcm"
    /\ i \in capture
    /\ audioSamples' = audioSamples + PcmBufferSize
    /\ lastOp' = "other" /\ handled' = None
    /\ UNCHANGED << envVars, callVars, now, connVars, pipeVars, uttVars, audioCursor,
                    sentSinceReset, results, pendingConv, store >>

(* the cursor and chunk bookkeeping of the send interval, done only when
   the chunk is emitted *)
PcmSendGuard == Connected(socket) /\ isActive

(* sendInterval: setInterval(..., 20) *)
PcmSendInterval(i, hasActivity) ==
    /\ svc = "verbumPcm"
    /\ i \in capture
    /\ audioSamples >= PcmChunkSize
    /\ audioSamples' = audioSamples - PcmChunkSize
    /\ LET after == UtteranceOnChunk(hasActivity, now, currentUtteranceStart,
                                     audioActivityDetected)
       IN  /\ currentUtteranceStart' = after[1]
           /\ audioActivityDetected' = after[2]
    /\ IF PcmSendGuard
       THEN /\ sentSinceReset' = sentSinceReset + 1
            /\ audioCursor' = AdvanceCursor(audioCursor, PcmChunkMs)
            /\ chunkCounter' = chunkCounter + 1
            /\ audioChunkTimestamps' =
                  IF chunkCounter % CursorCleanupEvery = 0
                  THEN cleanupOldTimestamps(audioChunkTimestamps \cup {now}, now)
                  ELSE audioChunkTimestamps \cup {now}
       ELSE UNCHANGED << sentSinceReset, audioCursor, chunkCounter,
                         audioChunkTimestamps >>
    /\ lastOp' = "other" /\ handled' = None
    /\ UNCHANGED << envVars, callVars, now, connVars, pipeVars, results, pendingConv,
                    store >>

-----------------------------------------------------------------------------
(* DeepgramService *)

DeepgramChunkMs == (DeepgramBufferSize * 1000) \div DeepgramSampleRate

Live(i) == conn[i] \in {"connecting", "open", "closing"}

(* stopTranscription's guard: if (!this.isActive) return *)
DeepgramStopGuard == ~isActive

(* the final metrics of stopTranscription, from the store's results *)
DeepgramFinalMetrics(slice) ==
    IF slice.results # << >>
    THEN updateMetrics(slice, calculateMetrics(slice.results))
    ELSE slice

(* the store slice after stopTranscription ran past its guard *)
DeepgramStoppedSlice(slice) ==
    DeepgramFinalMetrics(setConnectionStatus(setActive(slice, FALSE),
                                             "disconnected"))

(* connection.finish(): the close handshake starts *)
Finished(c, i) == IF i # 0 /\ Live(i) THEN [c EXCEPT ![i] = "closing"] ELSE c

DeepgramStopTranscription ==
    /\ svc = "deepgram"
    /\ lastOp' = "stop" /\ handled' = None
    /\ IF DeepgramStopGuard
       THEN UNCHANGED << isActive, tracksLive, streamRef, conn, socket, store >>
       ELSE /\ isActive' = FALSE
            /\ tracksLive' = IF streamRef THEN FALSE ELSE tracksLive
            /\ streamRef' = FALSE
            /\ conn' = Finished(conn, socket)
            /\ socket' = 0
            /\ store' = [store EXCEPT ![B] = DeepgramStoppedSlice(@)]
    /\ UNCHANGED << envVars, callVars, now, isConnecting, promise, timers, results,
                    capture, captureRef, cleanups, recog, uttVars, curVars,
                    pendingConv >>

(* startTranscription.  An active service is stopped first; outcome says
   whether client.listen.live or the AudioContext set-up throws *)
DeepgramStartTranscription(outcome) ==
    /\ svc = "deepgram"
    /\ lastOp' = "start" /\ handled' = None
    /\ LET wasActive == isActive
           conn1 == IF wasActive THEN Finished(conn, socket) ELSE conn
           socket1 == IF wasActive THEN 0 ELSE socket
           tracks1 == IF wasActive THEN (IF streamRef THEN FALSE ELSE tracksLive)
                      ELSE TRUE
           stream1 == IF wasActive THEN FALSE ELSE streamRef
           id == Len(conn) + 1
           failed == setActive(setConnectionStatus(reset(store[B]), "error"),
                               FALSE)
           started == setConnectionStatus(setActive(reset(store[B]), TRUE),
                                          "connected")
       IN  CASE outcome = "liveThrows" ->
                  /\ isActive' = FALSE
                  /\ store' = [store EXCEPT ![B] = failed]
                  /\ conn' = conn1
                  /\ socket' = socket1
                  /\ tracksLive' = tracks1
                  /\ streamRef' = stream1
                  /\ UNCHANGED << capture, uttVars, curVars >>
             [] outcome = "audioThrows" ->
                  /\ isActive' = FALSE
                  /\ store' = [store EXCEPT ![B] = failed]
                  /\ conn' = Append(conn1, "connecting")
                  /\ socket' = id
                  /\ tracksLive' = tracks1
                  /\ streamRef' = TRUE
                  /\ chunkCounter' = 0
                  /\ audioChunkTimestamps' = {}
                  /\ currentUtteranceStart' = 0
                  /\ audioActivityDetected' = FALSE
                  /\ audioCursor' = 0
                  /\ sentSinceReset' = 0
                  /\ UNCHANGED << capture, audioSamples >>
             [] outcome = "ok" ->
                  /\ isActive' = TRUE
                  /\ store' = [store EXCEPT ![B] = started]
                  /\ conn' = Append(conn1, "connecting")
                  /\ socket' = id
                  /\ tracksLive' = tracks1
                  /\ streamRef' = TRUE
                  /\ chunkCounter' = 0
                  /\ audioChunkTimestamps' = {}
                  /\ currentUtteranceStart' = 0
                  /\ audioActivityDetected' = FALSE
                  /\ audioCursor' = 0
                  /\ sentSinceReset' = 0
                  /\ capture' = capture \cup {id}
                  /\ UNCHANGED audioSamples
    /\ startPromise' = IF outcome = "ok" THEN "resolved" ELSE "rejected"
    /\ UNCHANGED << envVars, fallbacks, serviceRef, now, isConnecting, promise,
                    timers, results, captureRef, cleanups, recog, pendingConv >>

(* LiveTranscriptionEvents.Open *)
DeepgramOnOpen(i) ==
    /\ svc = "deepgram"
    /\ i \in DOMAIN conn
    /\ conn[i] = "connecting"
    /\ conn' = [conn EXCEPT ![i] = "open"]
    /\ store' = [store EXCEPT ![B] = setConnectionStatus(@, "connected")]
    /\ lastOp' = "other" /\ handled' = None
    /\ UNCHANGED << envVars, callVars, now, isActive, isConnecting, socket, promise,
                    timers, results, pipeVars, uttVars, curVars, pendingConv >>

(* LiveTranscriptionEvents.Error *)
DeepgramOnError(i) ==
    /\ svc = "deepgram"
    /\ i \in DOMAIN conn
    /\ Live(i)
    /\ store' = [store EXCEPT ![B] = setConnectionStatus(@, "error")]
    /\ lastOp' = "other" /\ handled' = None
    /\ UNCHANGED << envVars, callVars, now, connVars, results, pipeVars, uttVars,
                    curVars, pendingConv >>

(* LiveTranscriptionEvents.Close *)
DeepgramOnClose(i) ==
    /\ svc = "deepgram"
    /\ i \in DOMAIN conn
    /\ Live(i)
    /\ conn' = [conn EXCEPT ![i] = "closed"]
    /\ isActive' = FALSE
    /\ store' = [store EXCEPT ![B] =
                    setActive(setConnectionStatus(@, "disconnected"), FALSE)]
    /\ lastOp' = "other" /\ handled' = None
    /\ UNCHANGED << envVars, callVars, now, isConnecting, socket, promise, timers,
                    results, pipeVars, uttVars, curVars, pendingConv >>

DeepgramResult(data, ts) ==
    [text |-> Trim(data.alt.transcript),
     timestamp |-> ts,
     confidence |-> Some(DeepgramConfidence(data.alt.confidence)),
     isFinal |-> data.is_final,
     latency |-> ResultLatency(DeepgramLatency(data, audioCursor,
                                               currentUtteranceStart, ts))]

(* LiveTranscriptionEvents.Transcript -> handleTranscriptResult; results
   still arrive while the close handshake of finish() is in flight *)
DeepgramOnTranscript(i, data) ==
    /\ svc = "deepgram"
    /\ i \in DOMAIN conn
    /\ conn[i] \in {"open", "closing"}
    /\ IF IsBlank(data.alt.transcript)
       THEN /\ lastOp' = "other" /\ handled' = None
            /\ UNCHANGED << store, currentUtteranceStart,
                            audioActivityDetected >>
       ELSE LET result == DeepgramResult(data, now)
                after == UtteranceAfterResult(result.isFinal,
                                              currentUtteranceStart,
                                              audioActivityDetected)
            IN  /\ lastOp' = "result" /\ handled' = Some(data)
                /\ store' = [store EXCEPT ![B] = StoreAfterResult(@, result)]
                /\ currentUtteranceStart' = after[1]
                /\ audioActivityDetected' = after[2]
    /\ UNCHANGED << envVars, callVars, now, connVars, results, pipeVars, chunkCounter,
                    audioChunkTimestamps, curVars, pendingConv >>

(* processor.onaudioprocess: if (!this.connection || !this.isActive) return *)
DeepgramSendGuard == socket # 0 /\ isActive

(* processor.onaudioprocess of a script processor that was ever created;
   stopTranscription neither disconnects it nor closes its AudioContext *)
DeepgramOnAudioProcess(i, hasActivity) ==
    /\ svc = "deepgram"
    /\ i \in capture
    /\ DeepgramSendGuard
    /\ chunkCounter' = chunkCounter + 1
    /\ audioChunkTimestamps' =
          IF chunkCounter % CursorCleanupEvery = 0
          THEN cleanupOldTimestamps(audioChunkTimestamps \cup {now}, now)
          ELSE audioChunkTimestamps \cup {now}
    /\ LET after == UtteranceOnChunk(hasActivity, now, currentUtteranceStart,
                                     audioActivityDetected)
       IN  /\ currentUtteranceStart' = after[1]
           /\ audioActivityDetected' = after[2]
    /\ sentSinceReset' = sentSinceReset + 1
    /\ audioCursor' = AdvanceCursor(audioCursor, DeepgramChunkMs)
    /\ lastOp' = "other" /\ handled' = None
    /\ UNCHANGED << envVars, callVars, now, connVars, pipeVars, audioSamples, results,
                    pendingConv, store >>

-----------------------------------------------------------------------------
(* The specifications.  The bounds of the model are guards here, not part  *)
(* of the operations.                                                      *)

Conns == 1..MaxConns

RoomForConn == Len(conn) < MaxConns
RoomForResult == Len(results) < MaxResults /\ Len(store[B].results) < MaxResults
RoomForChunk == chunkCounter < MaxChunks
RoomForSamples == audioSamples + PcmBufferSize <= MaxSamples
RoomForTick(d) == now + d <= Epoch + MaxElapsed

(* recognition events without a confidence, and those without timing data *)
TimedVerbumEvents == {e \in VerbumEvents : e.confidence = None}
TimedDeepgramEvents == {e \in DeepgramEvents : e.alt.confidence = None}
PlainDeepgramEvents == {e \in TimedDeepgramEvents : e.start = None}

(* Session lifecycle: every call, transport event and timer of the three
   services, without a clock. Recognition events are delivered on the
   Deepgram connection, whose listeners outlive stopTranscription *)
Next ==
    \/ (VerbumStartGuard \/ RoomForConn) /\ VerbumStartTranscription
    \/ \E i \in Conns : VerbumOnConnect(i)
    \/ \E i \in Conns : VerbumOnConnectError(i)
    \/ \E i \in Conns, r \in BOOLEAN : VerbumOnDisconnect(i, r)
    \/ \E i \in Conns : VerbumOnTimeout(i)
    \/ \E i \in Conns :
          RoomForResult /\ FallbackOnResult(i, <<"a">>, TRUE)
    \/ \E i \in Conns : FallbackOnEnd(i)
    \/ VerbumStopTranscription
    \/ \E i \in Conns : VerbumRecorderEnds(i)
    \/ \E i \in Conns : VerbumCleanupInterval(i)
    \/ \E o \in {"ok", "liveThrows", "audioThrows"} :
          RoomForConn /\ DeepgramStartTranscription(o)
    \/ DeepgramStopTranscription
    \/ \E i \in Conns : DeepgramOnOpen(i)
    \/ \E i \in Conns : DeepgramOnError(i)
    \/ \E i \in Conns : DeepgramOnClose(i)
    \/ \E i \in Conns, data \in PlainDeepgramEvents :
          RoomForResult /\ DeepgramOnTranscript(i, data)
    \/ \E i \in Conns, a \in BOOLEAN :
          RoomForChunk /\ DeepgramOnAudioProcess(i, a)

Spec == Init /\ [][Next]_vars

(* Latency measurement: chunks, the clock and every kind of recognition
   event, on sessions that are started, connected, stopped and restarted *)
NextLatency ==
    \/ \E d \in TickSteps : RoomForTick(d) /\ Tick(d)
    \/ (VerbumStartGuard \/ RoomForConn) /\ VerbumStartTranscription
    \/ \E i \in Conns : VerbumOnConnect(i)
    \/ \E i \in Conns : VerbumOnDisconnect(i, FALSE)
    \/ \E i \in Conns, data \in TimedVerbumEvents :
          RoomForResult /\ VerbumOnSpeechRecognized(i, data)
    \/ VerbumStopTranscription
    \/ \E i \in Conns, a \in BOOLEAN :
          /\ RoomForChunk
          /\ Cardinality(pendingConv) < MaxPending
          /\ VerbumOnDataAvailable(i, a)
    \/ \E c \in pendingConv : VerbumOnBuffer(c)
    \/ \E i \in Conns : RoomForSamples /\ PcmOnAudioProcess(i)
    \/ \E i \in Conns, a \in BOOLEAN : RoomForChunk /\ PcmSendInterval(i, a)
    \/ RoomForConn /\ DeepgramStartTranscription("ok")
    \/ DeepgramStopTranscription
    \/ \E i \in Conns : DeepgramOnOpen(i)
    \/ \E i \in Conns : DeepgramOnClose(i)
    \/ \E i \in Conns, data \in TimedDeepgramEvents :
          RoomForResult /\ DeepgramOnTranscript(i, data)
    \/ \E i \in Conns, a \in BOOLEAN :
          RoomForChunk /\ DeepgramOnAudioProcess(i, a)

SpecLatency == Init /\ [][NextLatency]_vars

-----------------------------------------------------------------------------
(* Properties: session lifecycle *)

(* transport connections that are not closed yet *)
OpenConns == {i \in DOMAIN conn : conn[i] \in {"connecting", "open", "closing"}}

(* the session state a call to startTranscription can change *)
sessionVars == << connVars, pipeVars, uttVars, curVars, results, store >>

(* C1: startTranscription on a session that is already connecting or
   streaming is a no-op, it opens no connection and leaves the session state
   unchanged, and at most one transport connection is open per service
   instance at all times. *)
C1_StartWhileBusyIsNoOp ==
    [][ /\ (lastOp' = "start" /\ (isActive \/ isConnecting)
               => UNCHANGED sessionVars)
        /\ Cardinality(OpenConns') <= 1 ]_vars

(* C2: a stopTranscription that directly follows a stopTranscription changes
   nothing (no second release, same metrics and results), and the state the
   calls end in is the terminal one: isActive and isConnecting false and
   connectionStatus disconnected. *)
C2_StopTwiceSameTerminalState ==
    /\ [][lastOp = "stop" /\ lastOp' = "stop" => UNCHANGED sessionVars]_vars
    /\ [](lastOp = "stop" => /\ ~isActive /\ ~isConnecting
                             /\ store[B].connectionStatus = "disconnected")

(* C3: whatever state stopTranscription is called in, when it returns the
   session is idle with connectionStatus disconnected and nothing of the
   session captures or forwards audio any more: the service references no
   capture pipeline and no speech recognizer of the session is running. *)
C3_StopLeavesSessionIdle ==
    lastOp = "stop"
       => /\ ~isActive /\ ~isConnecting
          /\ store[B].connectionStatus = "disconnected"
          /\ ~streamRef
          /\ recog = {}

(* C4: a session that ended by stopTranscription holds no open transport
   socket, no pending connect timeout, no live cleanup interval and no live
   capture callback (recorder, send interval, audio processor). *)
C4_StopReleasesEverything ==
    lastOp = "stop"
       => /\ OpenConns = {}
          /\ timers = {}
          /\ cleanups = {}
          /\ capture = {}

-----------------------------------------------------------------------------
(* Properties: audio cursor, latency and the utterance timer *)

(* the duration, in ms, by which one submitted chunk advances the cursor *)
ChunkMs == IF svc = "deepgram" THEN DeepgramChunkMs
           ELSE IF svc = "verbumPcm" THEN PcmChunkMs ELSE 0

(* the step runs startAudioStreaming *)
StartsAudioStreaming ==
    \/ svc = "deepgram" /\ lastOp' = "start"
    \/ svc \in Verbums /\ captureRef' # captureRef /\ captureRef' # 0

(* the result added last to the store slice of the service *)
LastResult == store[B].results[Len(store[B].results)]

(* the step is a recognition handler that emits a result *)
HandlerEmits ==
    /\ lastOp' = "result"
    /\ Len(store'[B].results) = Len(store[B].results) + 1

(* the step handles a chunk of audio *)
ChunkStep ==
    \/ chunkCounter' = chunkCounter + 1
    \/ audioSamples' < audioSamples
    \/ pendingConv' # pendingConv

(* C5: the audio cursor is the sum of the durations of the chunks submitted
   since the cursor reset, whatever else happened in between, it never
   decreases within a session, and only the reset of startAudioStreaming
   sets it back to 0. *)
C5_CursorIsSumOfChunks ==
    /\ [](audioCursor = sentSinceReset * ChunkMs)
    /\ [][audioCursor' < audioCursor
             => audioCursor' = 0 /\ StartsAudioStreaming]_vars

(* C5 witness: two chunks were submitted and a result was handled *)
C5_Witness ==
    /\ sentSinceReset = 2
    /\ audioCursor = 2 * ChunkMs
    /\ audioCursor > 0
    /\ lastOp = "result"

(* C6: every emitted result that has a latency has latency >= 0 *)
C6_LatencyNonNegative ==
    \A i \in DOMAIN store[B].results :
        LET r == store[B].results[i]
        IN  r.latency # None => r.latency[1] >= 0

(* C6 witness: PCM Verbum handled an interim event whose transcript cursor
   is ahead of the audio cursor and emitted it with latency 0 *)
C6_Witness ==
    /\ svc = "verbumPcm"
    /\ lastOp = "result"
    /\ handled # None
    /\ handled[1].status = "recognizing"
    /\ handled[1].offset # None /\ handled[1].duration # None
    /\ audioCursor < handled[1].offset[1] + handled[1].duration[1]
    /\ LastResult.latency = Some(0)

(* the latency the cursor method gives an event whose transcript cursor is
   start + duration *)
CursorLatency(start, duration) == Some(Max(0, audioCursor - (start + duration)))

(* C7: an interim event that carries both an offset (start) and a duration
   is emitted with latency max(0, audioCursor - (offset + duration)); the
   handlers leave the cursor as it was when the event arrived *)
C7_InterimLatencyFromCursor ==
    lastOp = "result" =>
       /\ ( /\ svc = "deepgram"
            /\ ~handled[1].is_final
            /\ handled[1].start # None /\ handled[1].duration # None )
          => LastResult.latency =
                CursorLatency(handled[1].start[1], handled[1].duration[1])
       /\ ( /\ svc = "verbumPcm"
            /\ handled[1].status # "recognized"
            /\ handled[1].offset # None /\ handled[1].duration # None )
          => LastResult.latency =
                CursorLatency(handled[1].offset[1], handled[1].duration[1])

(* C8: a final event handled while the utterance timer is armed is emitted
   with latency now - currentUtteranceStart *)
C8_FinalLatencyFromUtteranceStart ==
    [][ ( /\ HandlerEmits
          /\ store'[B].results[Len(store'[B].results)].isFinal
          /\ currentUtteranceStart > 0 )
        => store'[B].results[Len(store'[B].results)].latency =
              Some(now - currentUtteranceStart) ]_vars

(* C8 witness: a final result measured one clock step after the chunk that
   armed the utterance timer *)
C8_Witness ==
    /\ lastOp = "result"
    /\ handled # None
    /\ LastResult.isFinal
    /\ LastResult.latency = Some(TickMs)

(* C9: a final event handled while no utterance start is tracked is emitted
   with no latency value at all *)
C9_UntrackedFinalHasNoLatency ==
    [][ ( /\ HandlerEmits
          /\ store'[B].results[Len(store'[B].results)].isFinal
          /\ currentUtteranceStart = 0 )
        => store'[B].results[Len(store'[B].results)].latency = None ]_vars

(* C9, as the code has it: such a final result carries a number, 0 in the
   cursor variants (Deepgram, PCM Verbum) and the chunk-timestamp value,
   0 when no chunk of the last 3000 ms is known, in the OPUS variant *)
C9_UntrackedFinalHasNumericLatency ==
    [][ ( /\ HandlerEmits
          /\ store'[B].results[Len(store'[B].results)].isFinal
          /\ currentUtteranceStart = 0 )
        => store'[B].results[Len(store'[B].results)].latency =
              Some(IF svc = "verbum"
                   THEN Max(0, ChunkBasedLatency(now, audioChunkTimestamps))
                   ELSE 0) ]_vars

(* C9 witness: a final result of a session that submitted no chunk, so no
   utterance start was tracked, carrying latency 0 *)
C9_Witness ==
    /\ lastOp = "result"
    /\ handled # None
    /\ LastResult.isFinal
    /\ LastResult.latency = Some(0)
    /\ chunkCounter = 0
    /\ pendingConv = {}

(* C10: a handled final result leaves the utterance timer idle, whichever
   branch computed the latency, and an idle timer is armed only by a chunk
   with activity *)
C10_FinalResetsUtteranceTimer ==
    [][ /\ ( HandlerEmits
             /\ store'[B].results[Len(store'[B].results)].isFinal )
           => currentUtteranceStart' = 0 /\ ~audioActivityDetected'
        /\ ( \/ currentUtteranceStart = 0 /\ currentUtteranceStart' # 0
             \/ ~audioActivityDetected /\ audioActivityDetected' )
           => /\ ChunkStep
              /\ audioActivityDetected' /\ currentUtteranceStart' > 0
      ]_vars

(* C10 witness: a final result whose latency came from an armed utterance
   timer was handled and the timer is idle *)
C10_Witness ==
    /\ lastOp = "result"
    /\ svc \in {"deepgram", "verbumPcm"}
    /\ store[B].results # << >>
    /\ LastResult.isFinal
    /\ LastResult.latency # None /\ LastResult.latency[1] > 0
    /\ chunkCounter > 0
    /\ currentUtteranceStart = 0
    /\ ~audioActivityDetected

-----------------------------------------------------------------------------
(* The store on its own: the actions of one backend's slice, dispatched in
   any order, as the services and the page dispatch them *)

MaxStoreResults == 2

(* texts of the dispatched results: a word, a word with a leading blank
   (the Web Speech fallback stores the raw transcript), two words *)
StoreTexts == { << "a" >>, << " ", "a" >>, << "a", " ", "b" >> }

StoreLatencies == { None, Some(0), Some(100), Some(201) }

StorePayloads ==
    { [text |-> t, timestamp |-> Epoch, confidence |-> None,
       isFinal |-> f, latency |-> None] :
         t \in StoreTexts, f \in BOOLEAN }
    \cup
    { [text |-> << "a" >>, timestamp |-> Epoch,
       confidence |-> None,
       isFinal |-> f, latency |-> l] :
         f \in BOOLEAN, l \in StoreLatencies }

(* the statuses the services and the page dispatch besides the initial one *)
StoreStatuses == { "connected", "error" }

serviceVars == << now, connVars, pipeVars, uttVars, curVars, results,
                  pendingConv >>

InitStore ==
    /\ Init
    /\ svc \in Backends
    /\ webSpeech

(* actions.addResult(payload) *)
StoreAddResult(payload) ==
    /\ store' = [store EXCEPT ![B] = addResult(@, payload)]
    /\ lastOp' = "addResult" /\ handled' = Some(payload)
    /\ UNCHANGED << envVars, callVars, serviceVars >>

(* actions.updateMetrics(calculateMetrics(results)), as every service
   publishes metrics *)
StoreUpdateMetrics ==
    /\ store' = [store EXCEPT ![B] =
                    updateMetrics(@, calculateMetrics(store[B].results))]
    /\ lastOp' = "updateMetrics" /\ handled' = None
    /\ UNCHANGED << envVars, callVars, serviceVars >>

(* a setActive that is applied to every slice of the store *)
StoreSetActiveEverySlice(b) ==
    /\ store' = [k \in Backends |-> setActive(store[k], b)]
    /\ lastOp' = "setActive" /\ handled' = None
    /\ UNCHANGED << envVars, callVars, serviceVars >>

(* actions.setActive(b) *)
StoreSetActive(b) ==
    /\ store' = [store EXCEPT ![B] = setActive(@, b)]
    /\ lastOp' = "setActive" /\ handled' = None
    /\ UNCHANGED << envVars, callVars, serviceVars >>

(* actions.setConnectionStatus(st) *)
StoreSetConnectionStatus(st) ==
    /\ store' = [store EXCEPT ![B] = setConnectionStatus(@, st)]
    /\ lastOp' = "setConnectionStatus" /\ handled' = None
    /\ UNCHANGED << envVars, callVars, serviceVars >>

(* actions.clearResults() *)
StoreClearResults ==
    /\ store' = [store EXCEPT ![B] = clearResults(@)]
    /\ lastOp' = "clearResults" /\ handled' = None
    /\ UNCHANGED << envVars, callVars, serviceVars >>

(* actions.reset(); handled keeps the slice the reset was applied to *)
StoreReset ==
    /\ store' = [store EXCEPT ![B] = reset(@)]
    /\ lastOp' = "reset" /\ handled' = Some(store[B])
    /\ UNCHANGED << envVars, callVars, serviceVars >>

RoomForStoreResult == Len(store[B].results) < MaxStoreResults

NextStore ==
    \/ \E payload \in StorePayloads : RoomForStoreResult /\ StoreAddResult(payload)
    \/ StoreUpdateMetrics
    \/ \E b \in BOOLEAN : StoreSetActive(b)
    \/ \E st \in StoreStatuses : StoreSetConnectionStatus(st)
    \/ StoreClearResults
    \/ StoreReset

SpecStore == InitStore /\ [][NextStore]_vars

-----------------------------------------------------------------------------
(* Properties of the store *)

Slice == store[B]

AddedResult == lastOp = "addResult" /\ handled # None

(* the texts of the final results, joined by single blanks in arrival
   order, built from the front of the sequence *)
RECURSIVE ArrivalJoin(_)
ArrivalJoin(rs) ==
    IF rs = << >> THEN << >>
    ELSE LET front == SubSeq(rs, 1, Len(rs) - 1)
             last == rs[Len(rs)]
         IN  IF ~last.isFinal THEN ArrivalJoin(front)
             ELSE IF \E i \in 1..Len(front) : front[i].isFinal
                  THEN ArrivalJoin(front) \o << " " >> \o last.text
                  ELSE last.text

(* C11: after addResult of a final result the display text equals
   finalText, the trimmed join in arrival order of the texts of the final
   results; interim results leave no trace in it *)
C11_FinalShowsFinalText ==
    ( AddedResult /\ handled[1].isFinal )
        => /\ Slice.text = Trim(ArrivalJoin(Slice.results))
           /\ Slice.text = finalText(Slice)

(* C11 witness: an interim result and then a final one were added, and
   only the final one shows *)
C11_Witness ==
    /\ AddedResult /\ handled[1].isFinal
    /\ Len(Slice.results) = 2
    /\ ~Slice.results[1].isFinal
    /\ Slice.results[1].text = << "a" >>
    /\ Slice.text = << "a", " ", "b" >>

(* the display text the interim branch is to show *)
InterimDisplay(final, interim) ==
    IF final = << >> THEN interim ELSE final \o << " " >> \o interim

(* C12: after addResult of an interim result the display text is finalText
   followed by that interim text (the interim text alone when finalText is
   empty), and finalText is what it was before *)
C12_InterimShowsFinalTextPlusInterim ==
    [][ ( lastOp' = "addResult" /\ ~handled'[1].isFinal )
          => /\ store'[B].text =
                   InterimDisplay(finalText(store'[B]), handled'[1].text)
             /\ finalText(store'[B]) = finalText(store[B])
      ]_vars

PublishedMetrics == lastOp = "updateMetrics"

NoFinal(rs) == \A i \in 1..Len(rs) : ~rs[i].isFinal

(* C13: calculateMetrics of a sequence without a final result is the zero
   record, and that is what a metrics update then publishes *)
C13_NoFinalGivesZeroMetrics ==
    NoFinal(Slice.results)
        => /\ calculateMetrics(Slice.results) = ZeroMetrics
           /\ PublishedMetrics => Slice.metrics = ZeroMetrics

(* C13 witness: metrics were published over interim results that carry
   text and a latency *)
C13_Witness ==
    /\ PublishedMetrics
    /\ Len(Slice.results) = 2
    /\ NoFinal(Slice.results)
    /\ Slice.results[1].latency = Some(100)
    /\ Slice.results[2].text = << "a", " ", "b" >>
    /\ Slice.metrics = ZeroMetrics

(* the non-empty whitespace-delimited tokens of a text, counted at their
   last character *)
Tokens(s) ==
    Cardinality({i \in 1..Len(s) :
        /\ s[i] # " "
        /\ (i = Len(s) \/ s[i + 1] = " ")})

RECURSIVE FinalTokens(_)
FinalTokens(rs) ==
    IF rs = << >> THEN 0
    ELSE (IF Head(rs).isFinal THEN Tokens(Head(rs).text) ELSE 0)
         + FinalTokens(Tail(rs))

(* C14: wordCount is the number of tokens of the final results' texts;
   interim results contribute nothing *)
C14_WordCountOfFinals ==
    /\ calculateMetrics(Slice.results).wordCount = FinalTokens(Slice.results)
    /\ PublishedMetrics => Slice.metrics.wordCount = FinalTokens(Slice.results)

(* C14 witness: a final "a b" and an interim "a b" were counted as two
   words *)
C14_Witness ==
    /\ PublishedMetrics
    /\ Len(Slice.results) = 2
    /\ Slice.results[1].isFinal /\ Slice.results[1].text = << "a", " ", "b" >>
    /\ ~Slice.results[2].isFinal /\ Slice.results[2].text = << "a", " ", "b" >>
    /\ Slice.metrics.wordCount = 2

Counts(r) == r.isFinal /\ r.latency # None /\ r.latency[1] > 0

RECURSIVE LatencyTotal(_)
LatencyTotal(rs) ==
    IF rs = << >> THEN 0
    ELSE (IF Counts(Head(rs)) THEN Head(rs).latency[1] ELSE 0)
         + LatencyTotal(Tail(rs))

LatencyCount(rs) == Cardinality({i \in 1..Len(rs) : Counts(rs[i])})

(* m is total / n rounded to the nearest integer, halves upwards *)
IsRoundedMean(m, total, n) ==
    IF n = 0 THEN m = 0
    ELSE 2 * m * n - n <= 2 * total /\ 2 * total < 2 * m * n + n

(* C15: the latency metric is the rounded mean of the latencies of the
   final results whose latency is present and positive, and 0 when there
   is none *)
C15_LatencyIsRoundedMean ==
    /\ IsRoundedMean(calculateMetrics(Slice.results).latency,
                     LatencyTotal(Slice.results), LatencyCount(Slice.results))
    /\ PublishedMetrics =>
         IsRoundedMean(Slice.metrics.latency,
                       LatencyTotal(Slice.results), LatencyCount(Slice.results))

(* C15 witness: final results with latencies 100 and 201 were averaged to
   151 *)
C15_Witness ==
    /\ PublishedMetrics
    /\ Len(Slice.results) = 2
    /\ Counts(Slice.results[1]) /\ Counts(Slice.results[2])
    /\ Slice.results[1].latency # Slice.results[2].latency
    /\ Slice.metrics.latency = 151

(* C15 witness of the exclusions: an interim result with a latency stayed
   out of the mean of one final result *)
C15_InterimExcluded ==
    /\ PublishedMetrics
    /\ Len(Slice.results) = 2
    /\ Slice.results[1].isFinal /\ Slice.results[1].latency = Some(100)
    /\ ~Slice.results[2].isFinal /\ Slice.results[2].latency = Some(201)
    /\ Slice.metrics.latency = 100

(* C16: after reset() the slice is the initial slice whatever was
   dispatched before: no text, no results, zero metrics, inactive,
   disconnected *)
C16_ResetRestoresInitialSlice ==
    lastOp = "reset"
        => /\ Slice = InitialSlice
           /\ Slice.text = << >> /\ finalText(Slice) = << >>
           /\ Slice.results = << >>
           /\ Slice.metrics = ZeroMetrics
           /\ ~Slice.isActive
           /\ Slice.connectionStatus = "disconnected"
           /\ DOMAIN Slice = DOMAIN InitialSlice

(* C16 witness: the slice that was reset differed from the initial one in
   every field *)
C16_Witness ==
    /\ lastOp = "reset"
    /\ handled # None
    /\ handled[1].text # << >>
    /\ handled[1].results # << >>
    /\ handled[1].metrics.latency > 0
    /\ handled[1].metrics.accuracy > 0
    /\ handled[1].metrics.wordCount > 0
    /\ handled[1].isActive
    /\ handled[1].connectionStatus # "disconnected"
    /\ Slice = InitialSlice

-----------------------------------------------------------------------------
(* Properties: transport failures *)

Status == store[B].connectionStatus

(* the step rejects connectToVerbum's promise of connection i: the open of
   the primary transport failed *)
OpenFails(i) ==
    /\ i \in DOMAIN promise
    /\ promise[i] = "pending"
    /\ promise'[i] = "rejected"

(* the step is a call of startTranscription or stopTranscription *)
CallStep == lastOp' \in {"start", "stop"}

(* a failed open publishes error and runs the fallback once; the latest
   start call's promise rejects when the fallback fails too *)
FailedOpenFallsBack ==
    \A i \in DOMAIN promise :
        /\ OpenFails(i)
             => /\ Status' = "error"
                /\ fallbacks'[i] = 1
                /\ webSpeech => i \in recog'
                /\ (i = Len(conn) /\ ~webSpeech) => startPromise' = "rejected"
        /\ fallbacks'[i] # fallbacks[i] => OpenFails(i)

(* DeepgramService has no fallback: a failed start publishes error and
   rejects *)
DeepgramFailedStartRejects ==
    ( svc = "deepgram" /\ lastOp' = "start" /\ startPromise' = "rejected" )
        => Status' = "error"

(* a session whose start was rejected stays in error until the next call *)
RejectedStaysInError ==
    ( startPromise = "rejected" /\ Status = "error" /\ ~CallStep )
        => Status' = "error"

(* C18: a failed open of the primary transport sets connectionStatus to
   error and attempts the fallback exactly once; when the fallback fails as
   well the promise of start() rejects and the session remains in error *)
C18_OpenFailureFallsBackOnce ==
    [][ /\ FailedOpenFallsBack
        /\ DeepgramFailedStartRejects
        /\ RejectedStaysInError ]_vars

(* the step is the connect-timeout timer of connection i firing *)
TimeoutFires(i) == i \in timers /\ i \notin timers'

(* C19: a connect timeout of the connection being opened is handled as a
   failed open is (isConnecting false, connectionStatus error, the fallback
   attempted once, isActive untouched), and a timeout that fires after the
   connect has succeeded or failed changes nothing but the timer itself *)
C19_TimeoutIsOpenFailure ==
    [][ \A i \in DOMAIN promise :
          TimeoutFires(i) =>
            IF promise[i] = "pending"
            THEN i = socket
                   => /\ OpenFails(i)
                      /\ ~isConnecting'
                      /\ isActive' = isActive
                      /\ Status' = "error"
                      /\ fallbacks'[i] = 1
                      /\ recog' = FallbackRecognizers(i)
                      /\ startPromise' = StartSettles(i, FallbackOutcome)
            ELSE /\ isConnecting' = isConnecting
                 /\ isActive' = isActive
                 /\ store' = store
                 /\ recog' = recog
                 /\ fallbacks' = fallbacks
                 /\ startPromise' = startPromise
      ]_vars

(* the session is streaming over its transport *)
Streaming == isActive /\ Connected(socket)

(* the step is the transport of a streaming session dropping *)
TransportDrops == Streaming /\ ~CallStep /\ conn'[socket] # "open"

(* the transport of the session dropped and the session was not stopped
   since *)
Dropped == socket # 0 /\ conn[socket] = "closed"

(* the results, text and metrics of the slice stay what they are *)
Accumulated(slice) == << slice.results, slice.text, slice.metrics >>

(* stopTranscription ran all of its teardown *)
TornDown ==
    /\ ~isActive' /\ ~isConnecting'
    /\ socket' = 0
    /\ ~streamRef'
    /\ captureRef \notin capture'
    /\ Status' = "disconnected"

DropPublishesError == TransportDrops => Status' = "error"

DropKeepsAccumulated ==
    TransportDrops => Accumulated(store'[B]) = Accumulated(store[B])

DroppedIsStoppable == ( Dropped /\ lastOp' = "stop" ) => TornDown

(* C20: when the transport of a streaming session drops, connectionStatus
   becomes error, the accumulated results, text and metrics stay, and the
   stopTranscription that follows runs its whole teardown and ends in
   disconnected *)
C20_DropIsErrorAndStoppable ==
    [][ /\ DropPublishesError
        /\ DropKeepsAccumulated
        /\ DroppedIsStoppable ]_vars

-----------------------------------------------------------------------------
(* The page (Home): every recording session gets a new service instance,
   the instances of earlier sessions are dropped from the page's ref but
   their recognizers and connections live on and write to the same store.
   The variables of the service hold the fields of the latest instance;
   the connection of the latest instance is the last one created *)

MaxPageResults == 2

PageServices == { "verbum", "deepgram" }

InitPage ==
    /\ Init
    /\ svc \in PageServices
    /\ webSpeech

(* the connection of the latest service instance *)
Latest == Len(conn)

(* handleStartRecording and the useEffect run by startRecording: reset()
   of both slices, then setActive(true), setConnectionStatus('connecting'),
   new Service(...) and startTranscription for each backend *)
PageStartRecording ==
    /\ ~serviceRef
    /\ serviceRef' = TRUE
    /\ lastOp' = "start" /\ handled' = None
    /\ LET id == Len(conn) + 1
           dispatched == [b \in Backends |->
                            setConnectionStatus(setActive(reset(store[b]), TRUE),
                                                "connecting")]
       IN  /\ conn' = Append(conn, "connecting")
           /\ socket' = id
           /\ isActive' = TRUE
           /\ IF svc = "deepgram"
              THEN /\ isConnecting' = FALSE
                   /\ store' = [dispatched EXCEPT ![B] =
                                   setConnectionStatus(
                                       setActive(reset(@), TRUE), "connected")]
                   /\ streamRef' = TRUE
                   /\ capture' = capture \cup {id}
                   /\ startPromise' = "resolved"
                   /\ UNCHANGED << promise, timers, fallbacks >>
              ELSE /\ isConnecting' = TRUE
                   /\ store' = [dispatched EXCEPT ![B] =
                                   setConnectionStatus(
                                       setActive(@, TRUE), "connecting")]
                   /\ streamRef' = FALSE
                   /\ promise' = Append(promise, "pending")
                   /\ timers' = timers \cup {id}
                   /\ startPromise' = "pending"
                   /\ fallbacks' = Append(fallbacks, 0)
                   /\ UNCHANGED capture
    /\ results' = << >>
    /\ captureRef' = 0
    /\ tracksLive' = TRUE
    /\ chunkCounter' = 0
    /\ audioChunkTimestamps' = {}
    /\ currentUtteranceStart' = 0
    /\ audioActivityDetected' = FALSE
    /\ audioCursor' = 0
    /\ audioSamples' = 0
    /\ sentSinceReset' = 0
    /\ pendingConv' = {}
    /\ UNCHANGED << envVars, now, cleanups, recog >>

(* handleStopRecording: stopRecording(), setActive(false) on both slices,
   stopTranscription of each service, the refs set to null *)
PageStopRecording ==
    /\ serviceRef
    /\ serviceRef' = FALSE
    /\ lastOp' = "stop" /\ handled' = None
    /\ tracksLive' = FALSE
    /\ LET inactive == [b \in Backends |-> setActive(store[b], FALSE)]
       IN  IF svc = "deepgram"
           THEN /\ IF DeepgramStopGuard
                   THEN /\ store' = inactive
                        /\ UNCHANGED << isActive, streamRef, conn, socket >>
                   ELSE /\ isActive' = FALSE
                        /\ streamRef' = FALSE
                        /\ conn' = Finished(conn, socket)
                        /\ socket' = 0
                        /\ store' = [inactive EXCEPT ![B] =
                                        DeepgramStoppedSlice(@)]
                /\ UNCHANGED << isConnecting, capture, captureRef >>
           ELSE /\ isActive' = FALSE
                /\ isConnecting' = FALSE
                /\ capture' = capture \ {captureRef}
                /\ captureRef' = IF captureRef \in capture THEN 0 ELSE captureRef
                /\ streamRef' = FALSE
                /\ conn' = IF socket # 0 THEN [conn EXCEPT ![socket] = "closed"]
                           ELSE conn
                /\ socket' = 0
                /\ store' = [inactive EXCEPT ![B] =
                                setActive(setConnectionStatus(
                                    VerbumFinalMetrics(@, results),
                                    "disconnected"), FALSE)]
    /\ UNCHANGED << envVars, now, promise, timers, results, cleanups, recog,
                    uttVars, curVars, pendingConv, startPromise, fallbacks >>

(* recognition.onresult of the recognizer that the service instance of
   connection i started; handled keeps whose listener ran *)
PageOnResult(i, transcript, isFinal) ==
    /\ svc \in Verbums
    /\ i \in recog
    /\ LET result == FallbackResult(transcript, isFinal, None, now)
       IN  /\ results' = IF i = Latest THEN Append(results, result) ELSE results
           /\ store' = IF ~IsBlank(transcript)
                       THEN [store EXCEPT ![B] = addResult(@, result)]
                       ELSE store
    /\ lastOp' = "fallback"
    /\ handled' = Some([conn |-> i, text |-> transcript, isFinal |-> isFinal])
    /\ UNCHANGED << envVars, callVars, now, connVars, pipeVars, uttVars, curVars,
                    pendingConv >>

(* recognition.onend of the recognizer of an earlier instance, which
   stopTranscription left inactive *)
PageOnEnd(i) ==
    /\ svc \in Verbums
    /\ i \in recog
    /\ i # Latest
    /\ recog' = recog \ {i}
    /\ lastOp' = "other" /\ handled' = None
    /\ UNCHANGED << envVars, callVars, now, connVars, capture, captureRef, cleanups,
                    streamRef, tracksLive, uttVars, curVars, results,
                    pendingConv, store >>

(* the Transcript listener of connection i for an interim event without
   timing data, whose result does not depend on the instance's fields *)
PageOnTranscript(i, data) ==
    /\ svc = "deepgram"
    /\ i \in DOMAIN conn
    /\ conn[i] \in {"open", "closing"}
    /\ ~data.is_final /\ data.start = None
    /\ ~IsBlank(data.alt.transcript)
    /\ LET result == [text |-> Trim(data.alt.transcript),
                      timestamp |-> now,
                      confidence |-> Some(DeepgramConfidence(data.alt.confidence)),
                      isFinal |-> FALSE,
                      latency |-> ResultLatency(DeepgramLatency(data, 0, 0, now))]
       IN  store' = [store EXCEPT ![B] = StoreAfterResult(@, result)]
    /\ lastOp' = "result"
    /\ handled' = Some([conn |-> i, text |-> data.alt.transcript,
                        isFinal |-> FALSE])
    /\ UNCHANGED << envVars, callVars, now, connVars, results, pipeVars, uttVars,
                    curVars, pendingConv >>

(* LiveTranscriptionEvents.Close of the connection of an earlier instance *)
PageOnClose(i) ==
    /\ svc = "deepgram"
    /\ i \in DOMAIN conn
    /\ i # Latest
    /\ Live(i)
    /\ conn' = [conn EXCEPT ![i] = "closed"]
    /\ store' = [store EXCEPT ![B] =
                    setActive(setConnectionStatus(@, "disconnected"), FALSE)]
    /\ lastOp' = "other" /\ handled' = None
    /\ UNCHANGED << envVars, callVars, now, isActive, isConnecting, socket,
                    promise, timers, results, pipeVars, uttVars, curVars,
                    pendingConv >>

RoomForPageResult ==
    /\ Len(results) < MaxPageResults
    /\ Len(store[B].results) < MaxPageResults

NextPage ==
    \/ RoomForConn /\ PageStartRecording
    \/ PageStopRecording
    \/ Latest > 0 /\ VerbumOnConnect(Latest)
    \/ Latest > 0 /\ VerbumOnConnectError(Latest)
    \/ Latest > 0 /\ DeepgramOnOpen(Latest)
    \/ Latest > 0 /\ DeepgramOnClose(Latest)
    \/ \E i \in Conns, t \in Texts, f \in BOOLEAN :
          RoomForPageResult /\ PageOnResult(i, t, f)
    \/ \E i \in Conns : PageOnEnd(i)
    \/ \E i \in Conns, data \in PlainDeepgramEvents :
          RoomForPageResult /\ PageOnTranscript(i, data)
    \/ \E i \in Conns : PageOnClose(i)

SpecPage == InitPage /\ [][NextPage]_vars

-----------------------------------------------------------------------------
(* Properties: recording sessions of the page *)

(* the step starts a recording session *)
SessionStarts == ~serviceRef /\ serviceRef'

(* the step adds a result to, or changes the metrics of, backend b *)
StoreGains(b) ==
    \/ Len(store'[b].results) > Len(store[b].results)
    \/ store'[b].metrics # store[b].metrics

(* C17: a recording session starts from reset slices of both backends,
   and while it runs every result added to the store and every metrics
   change comes from the listeners of that session's service instance *)
C17_SessionStateIsFresh ==
    [][ /\ SessionStarts
           => \A b \in Backends :
                 /\ store'[b].results = << >>
                 /\ store'[b].text = << >>
                 /\ store'[b].metrics = ZeroMetrics
        /\ ( serviceRef /\ serviceRef' /\ \E b \in Backends : StoreGains(b) )
           => handled' # None /\ handled'[1].conn = Latest
      ]_vars

-----------------------------------------------------------------------------
(* Properties: reconnection *)

(* the transport the session streamed over is gone: the Verbum socket had
   connected and is not connected now, the Deepgram connection is closed *)
TransportLost ==
    /\ socket # 0
    /\ IF svc \in Verbums
       THEN promise[socket] = "resolved" /\ conn[socket] \in {"connecting", "closed"}
       ELSE conn[socket] = "closed"

(* C21: a session whose transport was lost does not become connected or
   streaming again by a transport event or timer, only by calls of
   stopTranscription and startTranscription *)
C21_NoReconnectOnItsOwn ==
    [][ ( TransportLost /\ ~CallStep )
          => /\ Status' # "connected"
             /\ ~Streaming'
      ]_vars

-----------------------------------------------------------------------------
(* Properties: metrics publication *)

(* the step delivers a final result to the store *)
FinalDelivered ==
    /\ Len(store'[B].results) = Len(store[B].results) + 1
    /\ store'[B].results[Len(store'[B].results)].isFinal

(* the metrics in the store after the step count every final result the
   store holds after the step: an update was published for them *)
MetricsCoverResults ==
    /\ store'[B].metrics # ZeroMetrics
    /\ store'[B].metrics.wordCount = FinalTokens(store'[B].results)

(* the step is a stopTranscription ending a session that holds final
   results *)
SessionEndsWithFinals ==
    /\ lastOp' = "stop"
    /\ \E k \in 1..Len(store[B].results) : store[B].results[k].isFinal

FinalPublishesMetrics == FinalDelivered => MetricsCoverResults

SessionEndPublishesMetrics == SessionEndsWithFinals => MetricsCoverResults

(* C22: every final result delivered to the store, by the socket or by the
   fallback recognizer, comes with a metrics update, and so does the end of
   the session *)
C22_MetricsPublishedPerFinal ==
    [][ FinalPublishesMetrics /\ SessionEndPublishesMetrics ]_vars


-----------------------------------------------------------------------------
(* Results of a session: recognition events with blank and non-blank text
   on the socket, on the Web Speech fallback and on the Deepgram connection,
   the caller's own callback, stopTranscription and the page's manual Reset
   button, without a clock *)

MaxSessionResults == 2

(* the service is started with or without the caller's own callback *)
InitResults == Constructed /\ customSink \in BOOLEAN /\ webSpeech

(* the Manual Reset button of the page Home: deepgramActions.reset();
   verbumActions.reset(); the services keep their own state *)
PageManualReset ==
    /\ store' = [b \in Backends |-> reset(store[b])]
    /\ lastOp' = "reset" /\ handled' = Some(store[B])
    /\ UNCHANGED << envVars, callVars, now, connVars, results, pipeVars,
                    uttVars, curVars, pendingConv >>

RoomForSessionResult ==
    /\ Len(results) < MaxSessionResults
    /\ Len(store[B].results) < MaxSessionResults

PlainVerbumEvents == {e \in TimedVerbumEvents : e.offset = None}

NextResults ==
    \/ (VerbumStartGuard \/ RoomForConn) /\ VerbumStartTranscription
    \/ \E i \in Conns : VerbumOnConnect(i)
    \/ \E i \in Conns : VerbumOnConnectError(i)
    \/ \E i \in Conns, data \in PlainVerbumEvents :
          RoomForSessionResult /\ VerbumOnSpeechRecognized(i, data)
    \/ \E i \in Conns, t \in Texts, f \in BOOLEAN :
          RoomForSessionResult /\ FallbackOnResult(i, t, f)
    \/ VerbumStopTranscription
    \/ RoomForConn /\ DeepgramStartTranscription("ok")
    \/ \E i \in Conns : DeepgramOnOpen(i)
    \/ \E i \in Conns, data \in PlainDeepgramEvents :
          RoomForSessionResult /\ DeepgramOnTranscript(i, data)
    \/ DeepgramStopTranscription
    \/ \E i \in Conns : DeepgramOnClose(i)
    \/ PageManualReset

SpecResults == InitResults /\ [][NextResults]_vars

(* C23: a recognition event whose text is empty or whitespace-only is
   discarded on every transport variant, so every result held by the
   service's result list and by the store has non-empty trimmed text *)
C23_HeldResultsAreNonBlank ==
    /\ \A k \in 1..Len(results) : ~IsBlank(results[k].text)
    /\ \A k \in 1..Len(store[B].results) : ~IsBlank(store[B].results[k].text)


(* C24: no step of a backend's service (its stop, its restart, its recorder
   handlers) stops the tracks of the shared microphone MediaStream: tracks
   that are live stay live across every service step *)
C24_ServiceLeavesTracksLive == [][ tracksLive => tracksLive' ]_vars


-----------------------------------------------------------------------------
(* The two slices of the store: the store actions and the service events
   of one backend, while the other backend's service dispatches the
   actions of its own slice *)

MaxSliceResults == 1
MaxSliceConns == 1

Other == IF B = "verbum" THEN "deepgram" ELSE "verbum"

SlicePayload(f) ==
    [text |-> << "a" >>, timestamp |-> Epoch, confidence |-> None,
     isFinal |-> f, latency |-> Some(100)]

(* the other backend's service dispatches an action of its own slice: a
   session of it starts, delivers final results and is reset *)
OtherBackendActs ==
    /\ \E s \in { setActive(store[Other], TRUE), reset(store[Other]) }
                \cup
                { addResult(store[Other], SlicePayload(f)) :
                    f \in {g \in {TRUE} :
                             Len(store[Other].results) < MaxSliceResults} } :
          store' = [store EXCEPT ![Other] = s]
    /\ lastOp' = "otherBackend" /\ handled' = None
    /\ UNCHANGED << envVars, callVars, serviceVars >>

RoomForSliceResult ==
    /\ Len(results) < MaxSliceResults
    /\ Len(store[B].results) < MaxSliceResults
RoomForSliceConn == Len(conn) < MaxSliceConns

InitSlices == Init /\ svc \in PageServices /\ webSpeech

NextSlices ==
    \/ \E f \in BOOLEAN : RoomForSliceResult /\ StoreAddResult(SlicePayload(f))
    \/ StoreUpdateMetrics
    \/ \E b \in BOOLEAN : StoreSetActive(b)
    \/ StoreSetConnectionStatus("connected")
    \/ StoreClearResults
    \/ StoreReset
    \/ (VerbumStartGuard \/ RoomForSliceConn) /\ VerbumStartTranscription
    \/ \E i \in Conns : VerbumOnConnect(i)
    \/ \E i \in Conns : VerbumOnDisconnect(i, FALSE)
    \/ \E i \in Conns, data \in {e \in PlainVerbumEvents : ~IsBlank(e.text)} :
          RoomForSliceResult /\ VerbumOnSpeechRecognized(i, data)
    \/ VerbumStopTranscription
    \/ RoomForSliceConn /\ DeepgramStartTranscription("ok")
    \/ \E i \in Conns : DeepgramOnOpen(i)
    \/ \E i \in Conns,
          data \in {e \in PlainDeepgramEvents : ~IsBlank(e.alt.transcript)} :
          RoomForSliceResult /\ DeepgramOnTranscript(i, data)
    \/ \E i \in Conns : DeepgramOnClose(i)
    \/ DeepgramStopTranscription
    \/ OtherBackendActs

SpecSlices == InitSlices /\ [][NextSlices]_vars

OwnStep == lastOp' # "otherBackend"

(* C25: a store action or a service event of one backend leaves every
   field of the other backend's slice unchanged, and an action of the other
   backend leaves this backend's slice and service state unchanged *)
C25_BackendsAreIndependent ==
    [][ /\ OwnStep => store'[Other] = store[Other]
        /\ ~OwnStep => /\ store'[B] = store[B]
                       /\ UNCHANGED << serviceVars, callVars >> ]_vars

(* this backend was reset, or its session was stopped, while the other
   backend's slice holds a result and is active *)
C25_Witness ==
    /\ lastOp \in {"reset", "stop"}
    /\ store[Other].results # << >>
    /\ store[Other].isActive
    /\ store[B].results = << >>


-----------------------------------------------------------------------------
(* Order of the stored results *)

IsPrefix(p, q) ==
    /\ Len(p) <= Len(q)
    /\ \A k \in 1..Len(p) : q[k] = p[k]

Clears == lastOp' \in {"reset", "clearResults"}

(* C26: between two resets or clears every store action leaves the stored
   results as an unchanged prefix, and addResult appends exactly its payload
   at the end *)
C26_ResultsAreAppendOnly ==
    [][ /\ ~Clears => IsPrefix(Slice.results, store'[B].results)
        /\ lastOp' = "addResult" =>
              store'[B].results = Append(Slice.results, handled'[1]) ]_vars

(* a second, different result was added behind the first *)
C26_Witness ==
    /\ lastOp = "addResult"
    /\ Len(Slice.results) = 2
    /\ Slice.results[1] # Slice.results[2]
    /\ handled = Some(Slice.results[2])


-----------------------------------------------------------------------------
(* Sending audio *)

(* a chunk is handed to the transport *)
ChunkSent == sentSinceReset' = sentSinceReset + 1

(* C27: a chunk is handed to the transport only while the session is active
   and the transport's open has succeeded and it has not been closed *)
C27_SendOnlyWhileOpen == [][ ChunkSent => Streaming ]_vars


-----------------------------------------------------------------------------
(* The latency computation of the three handlers on one recognition event *)

(* isFinal and the optional (offset, duration) of a recognition event *)
EventTimings == {None} \cup {Some(p) : p \in TimingPairs}

(* the event as the Deepgram connection delivers it, the timing carried by
   the alternative that handleTranscriptResult reads *)
AsDeepgramEvent(f, t) ==
    IF t = None
    THEN [is_final |-> f, start |-> None, duration |-> None,
          alt |-> [transcript |-> << "a" >>, confidence |-> None]]
    ELSE [is_final |-> f, start |-> Some(t[1][1]), duration |-> Some(t[1][2]),
          alt |-> [transcript |-> << "a" >>, confidence |-> None,
                   start |-> t[1][1], duration |-> t[1][2]]]

(* the event as the Verbum socket delivers it *)
AsVerbumEvent(f, t) ==
    [text |-> << "a" >>, confidence |-> None,
     status |-> IF f THEN "recognized" ELSE "recognizing",
     offset |-> IF t = None THEN None ELSE Some(t[1][1]),
     duration |-> IF t = None THEN None ELSE Some(t[1][2])]

(* C28: on the same chunk history (cursor, utterance start, chunk
   timestamps) and the same recognition event arriving at the same time,
   the handlers of the adapters compute the same latency *)
C28_AdaptersComputeSameLatency ==
    \A f \in BOOLEAN, t \in EventTimings :
       LET deepgram == ResultLatency(
                          DeepgramLatency(AsDeepgramEvent(f, t), audioCursor,
                                          currentUtteranceStart, now))
           opus == ResultLatency(
                      VerbumLatency(AsVerbumEvent(f, t),
                                    currentUtteranceStart, now,
                                    audioChunkTimestamps))
           pcm == ResultLatency(
                     VerbumPcmLatency(AsVerbumEvent(f, t), audioCursor,
                                      currentUtteranceStart, now,
                                      audioChunkTimestamps))
       IN  deepgram = opus /\ deepgram = pcm


-----------------------------------------------------------------------------
(* Metrics against the results of the session *)

(* the results the session accumulated: the service's own list, which
   DeepgramService keeps in the store only *)
SessionResults == IF svc \in Verbums THEN results ELSE store[B].results

(* the handler has just handled a final recognition event *)
FinalHandled ==
    /\ lastOp = "result"
    /\ handled # None
    /\ IF svc \in Verbums THEN handled[1].status = "recognized"
                          ELSE handled[1].is_final

(* C29: right after a final result was handled, the metrics in the store
   are calculateMetrics of all results the session accumulated, that result
   included, with the default and with the caller's own callback *)
C29_FinalMetricsCoverSession ==
    FinalHandled => Slice.metrics = calculateMetrics(SessionResults)


(* stopTranscription has just run on a session that has results *)
StoppedWithResults ==
    /\ lastOp = "stop"
    /\ SessionResults # << >> \/ Slice.results # << >>

(* C30: when stopTranscription has run on a session that has results, the
   published metrics are calculateMetrics of the results the store holds,
   and the service's result list equals the store's *)
C30_StopMetricsCoverStore ==
    StoppedWithResults =>
        /\ Slice.metrics = calculateMetrics(Slice.results)
        /\ SessionResults = Slice.results


-----------------------------------------------------------------------------
(* Sessions one after another on one service instance: start, a connection
   that opens or fails, chunks, recognition events and stop, without a
   clock *)

NextSessions ==
    \/ (VerbumStartGuard \/ RoomForConn) /\ VerbumStartTranscription
    \/ \E i \in Conns : VerbumOnConnect(i)
    \/ \E i \in Conns : VerbumOnConnectError(i)
    \/ \E i \in Conns, a \in BOOLEAN :
          /\ RoomForChunk
          /\ Cardinality(pendingConv) < MaxPending
          /\ VerbumOnDataAvailable(i, a)
    \/ \E c \in pendingConv : VerbumOnBuffer(c)
    \/ \E i \in Conns, data \in {e \in PlainVerbumEvents : ~IsBlank(e.text)} :
          RoomForResult /\ VerbumOnSpeechRecognized(i, data)
    \/ VerbumStopTranscription
    \/ RoomForConn /\ DeepgramStartTranscription("ok")
    \/ \E i \in Conns : DeepgramOnOpen(i)
    \/ \E i \in Conns, a \in BOOLEAN :
          RoomForChunk /\ DeepgramOnAudioProcess(i, a)
    \/ \E i \in Conns,
          data \in {e \in PlainDeepgramEvents : ~IsBlank(e.alt.transcript)} :
          RoomForResult /\ DeepgramOnTranscript(i, data)
    \/ DeepgramStopTranscription

SpecSessions == InitPage /\ [][NextSessions]_vars

(* the state startAudioStreaming leaves behind *)
TimersReset ==
    /\ chunkCounter = 0
    /\ audioChunkTimestamps = {}
    /\ currentUtteranceStart = 0
    /\ ~audioActivityDetected
    /\ svc # "verbum" => audioCursor = 0

(* C31: a start that passed the guard has reset the cursor, the utterance
   timer, the chunk counter and the chunk timestamps before a recognition
   event of its session can be handled: right after the start of
   DeepgramService, and for VerbumService whenever its socket is open
   while startAudioStreaming has not run for this start *)
C31_StartResetsTimers ==
    /\ (svc = "deepgram" /\ lastOp = "start" /\ isActive) => TimersReset
    /\ (svc \in Verbums /\ Connected(socket) /\ promise[socket] # "resolved")
          => TimersReset


-----------------------------------------------------------------------------
(* The published status against the transport *)

(* C32: whenever the store shows connected, the current connection has
   reported its open/connect event and has not since reported close,
   disconnect or error *)
C32_ConnectedOnlyAfterOpen == Status = "connected" => Connected(socket)


-----------------------------------------------------------------------------
(* The cursor against the audio that was sent *)

(* samples of one submitted chunk and the sample rate of the capture *)
SamplesPerChunk == IF svc = "verbumPcm" THEN PcmChunkSize ELSE DeepgramBufferSize
SampleRate == IF svc = "verbumPcm" THEN PcmSampleRate ELSE DeepgramSampleRate

(* C33: the audio cursor of the services that keep one is the duration of
   the audio handed to the transport: in milliseconds, the samples
   submitted since the reset divided by the sample rate *)
C33_CursorIsSubmittedDuration ==
    svc # "verbum" =>
        audioCursor * SampleRate = sentSinceReset * SamplesPerChunk * 1000


-----------------------------------------------------------------------------
(* The utterance timer *)

Armed == audioActivityDetected

(* the capture times of the chunks a step can have processed *)
ChunkTimes == {now} \cup {c.stamp : c \in pendingConv}

(* C34: the utterance timer has two states: activityDetected is true
   exactly when the utterance start is set; arming records the time of the
   chunk that armed it; while armed, no chunk changes the recorded start *)
C34_UtteranceTimerTwoStates ==
    /\ [](Armed <=> currentUtteranceStart > 0)
    /\ [][ /\ (~Armed /\ Armed') => currentUtteranceStart' \in ChunkTimes
           /\ (Armed /\ Armed') =>
                 currentUtteranceStart' = currentUtteranceStart ]_vars

(* the timer was armed by an earlier chunk and a later chunk with a later
   time has been processed since *)
C34_Witness ==
    /\ Armed
    /\ chunkCounter = 2
    /\ pendingConv = {}
    /\ currentUtteranceStart < now
    /\ now \in audioChunkTimestamps


-----------------------------------------------------------------------------
(* Reset against the session *)

(* the service is connecting or streaming *)
SessionBusy == isActive \/ isConnecting

(* C35: a reset of the store takes effect only while the session is idle:
   when a reset has just been applied, the service is neither connecting
   nor active, so the store does not show an idle, empty session while the
   service still delivers results *)
C35_ResetOnlyWhenIdle == lastOp = "reset" => ~SessionBusy


-----------------------------------------------------------------------------
(* Connecting: the calls, the transport events and the connect-timeout
   timer, where a timer that was set does fire *)

NextConnect ==
    \/ (VerbumStartGuard \/ RoomForConn) /\ VerbumStartTranscription
    \/ \E i \in Conns : VerbumOnConnect(i)
    \/ \E i \in Conns : VerbumOnConnectError(i)
    \/ \E i \in Conns, r \in BOOLEAN : VerbumOnDisconnect(i, r)
    \/ \E i \in Conns : VerbumOnTimeout(i)
    \/ VerbumStopTranscription
    \/ \E o \in {"ok", "liveThrows"} :
          RoomForConn /\ DeepgramStartTranscription(o)
    \/ \E i \in Conns : DeepgramOnOpen(i)
    \/ \E i \in Conns : DeepgramOnClose(i)
    \/ DeepgramStopTranscription

(* setTimeout callbacks run: a pending connect timeout fires *)
TimersFire == \A i \in Conns : WF_vars(VerbumOnTimeout(i))

SpecConnect == Init /\ [][NextConnect]_vars /\ TimersFire

(* the outcomes of connecting; the store of a session that runs on the
   fallback shows error *)
Settled == Status \in {"connected", "error"}

(* C36: a session does not stay in connecting forever: isConnecting
   becomes false again, and a store that shows connecting comes to show
   connected, or error with or without a running fallback *)
C36_ConnectingEnds ==
    /\ isConnecting ~> ~isConnecting
    /\ (Status = "connecting") ~> Settled

(* the connect timeout ended a connection attempt that got no answer *)
C36_Witness ==
    /\ svc \in Verbums
    /\ socket # 0
    /\ conn[socket] = "connecting"
    /\ promise[socket] = "rejected"
    /\ socket \notin timers
    /\ ~isConnecting
    /\ Status = "error"
    /\ fallbacks[socket] = 1


-----------------------------------------------------------------------------
(* Events of an earlier connection *)

(* a listener or the connect timeout of connection i has run *)
EventOf(i) ==
    /\ lastOp' = "other"
    /\ \/ conn'[i] # conn[i]
       \/ i \in timers /\ i \notin timers'

(* the step is an event of a connection that an earlier start created,
   while a later start's connection is the current one *)
StaleEvent == \E i \in DOMAIN conn : socket # 0 /\ i # socket /\ EventOf(i)

(* C37: an event of an earlier connection of the service (a late connect,
   disconnect, close or error, or the earlier start's connect timeout)
   leaves isActive, isConnecting, the published status and the results of
   the current session unchanged *)
C37_StaleEventsAreIgnored ==
    [][ StaleEvent => /\ UNCHANGED << isActive, isConnecting, results >>
                      /\ store'[B] = store[B] ]_vars


-----------------------------------------------------------------------------
(* After stopTranscription *)

(* stopTranscription has released the transport and no start followed *)
Stopped == socket = 0

(* C38: once stopTranscription has returned, no event adds a result to the
   service's results or to the store and none publishes metrics, on the
   transport and on the Web Speech fallback *)
C38_NoResultsAfterStop ==
    [][ (Stopped /\ Stopped' /\ ~CallStep) =>
           /\ results' = results
           /\ store'[B].results = store[B].results
           /\ store'[B].metrics = store[B].metrics ]_vars


-----------------------------------------------------------------------------
(* Chunk conversions that complete after a final result *)

(* the times at which the session's final results were handled *)
FinalTimes == {results[k].timestamp : k \in {j \in DOMAIN results : results[j].isFinal}}

(* C39: whatever the order of conversion completions and recognition
   events, an armed utterance timer holds the capture time of a chunk
   captured after the previous final result was handled, never the older
   time of a chunk captured before it *)
C39_UtteranceStartAfterLastFinal ==
    Armed => \A t \in FinalTimes : currentUtteranceStart >= t


-----------------------------------------------------------------------------
(* Starting again after stopTranscription *)

(* the start call got past the guard and tried to open a transport: a new
   connection exists, or creating it threw *)
StartLetThrough ==
    \/ Len(conn') = Len(conn) + 1 /\ socket' = Len(conn')
    \/ svc = "deepgram" /\ Status' = "error" /\ startPromise' = "rejected"

(* C40: a start that follows stopTranscription on the same service
   instance is not blocked by the guard: whatever the session state was
   before the stop, the next start makes a new connection attempt *)
C40_StartAfterStopGoesThrough ==
    [][ (Stopped /\ lastOp' = "start") => StartLetThrough ]_vars

=============================================================================
